---- MODULE Spec2Model ----
(***************************************************************************)
(* The duplicate-routine detector of locus (src/locus/similarity): unit    *)
(* extraction, the two key functions (whitespace-normalised text, the      *)
(* canonical AST dump), the shared grouping core and the runner.           *)
(*                                                                         *)
(* Source text is a sequence of atoms.  Every whitespace character is an   *)
(* atom of its own; a non-whitespace atom is one Python token (or one      *)
(* fragment of a string literal) and never holds whitespace, so two texts  *)
(* are equal as Python strings exactly when their atom sequences are.      *)
(* A syntax tree is a record [t, id, k, val, kids, ln, eln]: the node      *)
(* class, its identifier field, a second field (ctx, asname, the Python    *)
(* type of a constant), a constant's text, the child nodes in field order, *)
(* and the attributes lineno, end_lineno and col (the nesting level that   *)
(* col_offset stands for).                                                 *)
(***************************************************************************)
EXTENDS Integers, Sequences, FiniteSets, TLC

\* ------------------------------------------------------------------ bounds
\* Largest number of files in the analysed file map.
MaxFiles == 2
\* Deepest nesting level (inside classes and functions) of a def.
MaxDepth == 2
\* Largest number of units handed to prepare directly.
MaxUnits == 3

\* ------------------------------------------------------------ sequences
RECURSIVE Concat(_)
Concat(ss) == IF ss = <<>> THEN <<>> ELSE Head(ss) \o Concat(Tail(ss))

RECURSIVE Join(_, _)
Join(ss, sep) ==
  IF ss = <<>> THEN <<>>
  ELSE IF Len(ss) = 1 THEN ss[1]
  ELSE ss[1] \o sep \o Join(Tail(ss), sep)

Repeat(a, n) == [i \in 1..n |-> a]

CountOf(a, s) == Cardinality({i \in DOMAIN s : s[i] = a})

Last(s) == s[Len(s)]

\* ----------------------------------------------------------------- text
\* The characters the pattern \s+ and str.strip() treat as whitespace.
Whitespace == {" ", "\n", "\t"}

IsSpace(a) == a \in Whitespace

\* ------------------------------------------------------------------ ast
Node(t, id, k, val, kids) ==
  [t |-> t, id |-> id, k |-> k, val |-> val, kids |-> kids,
   ln |-> 0, eln |-> 0, col |-> 0]

NoneNode == Node("None", "", "", <<>>, <<>>)
List(items) == Node("list", "", "", <<>>, items)

Name(id, ctx) == Node("Name", id, ctx, <<>>, <<>>)
Load(id) == Name(id, "Load")
Store(id) == Name(id, "Store")
\* k is the Python type of the value, val its source text.
Constant(type, val) == Node("Constant", "", type, val, <<>>)
Attribute(value, attr) == Node("Attribute", attr, "Load", <<>>, <<value>>)
Keyword(arg, value) == Node("keyword", arg, "", <<>>, <<value>>)
Call(func, args, keywords) == Node("Call", "", "", <<>>, <<func, List(args), List(keywords)>>)
Alias(name, asname) == Node("alias", name, asname, <<>>, <<>>)

Assign(target, value) == Node("Assign", "", "", <<>>, <<List(<<target>>), value>>)
Return(value) == Node("Return", "", "", <<>>, <<value>>)
Expr(value) == Node("Expr", "", "", <<>>, <<value>>)
Pass == Node("Pass", "", "", <<>>, <<>>)
Import(names) == Node("Import", "", "", <<>>, <<List(names)>>)
ExceptHandler(type, name, body) == Node("ExceptHandler", name, "", <<>>, <<type, List(body)>>)
Try(body, handlers) == Node("Try", "", "", <<>>, <<List(body), List(handlers), List(<<>>), List(<<>>)>>)
If(test, body, orelse) == Node("If", "", "", <<>>, <<test, List(body), List(orelse)>>)
Arg(name, annotation) == Node("arg", name, "", <<>>, <<annotation>>)
Arguments(args, defaults) == Node("arguments", "", "", <<>>, <<List(args), List(defaults)>>)
\* kids: args, body, decorator_list, returns
FunctionDef(name, args, body, decorators, returns) ==
  Node("FunctionDef", name, "", <<>>, <<args, List(body), List(decorators), returns>>)
AsyncFunctionDef(name, args, body, decorators, returns) ==
  Node("AsyncFunctionDef", name, "", <<>>, <<args, List(body), List(decorators), returns>>)
\* kids: bases, body
ClassDef(name, body) == Node("ClassDef", name, "", <<>>, <<List(<<>>), List(body)>>)
Module(body) == Node("Module", "", "", <<>>, <<List(body)>>)

IsFunction(n) == n.t \in {"FunctionDef", "AsyncFunctionDef"}
Items(l) == l.kids
NoArgs == Arguments(<<>>, <<>>)

\* -------------------------------------------------------------- layout
\* How a tree is written down: ind spaces per indentation level, sp spaces
\* on each side of "=", nl line breaks between statements (2 leaves a blank
\* line), and whether a body of simple statements follows the colon on the
\* def line, joined by ";".
Layout(ind, sp, nl, semi) == [ind |-> ind, sp |-> sp, nl |-> nl, semi |-> semi]

IsSimpleStmt(s) == s.t \in {"Assign", "Return", "Expr", "Pass", "Import"}
OneLine(f, lay) == lay.semi /\ \A i \in DOMAIN f.kids[2].kids : IsSimpleStmt(f.kids[2].kids[i])

RECURSIVE RenderExpr(_)
RenderExpr(e) ==
  CASE e.t = "Name" -> <<e.id>>
    [] e.t = "Constant" ->
         IF e.k = "str" THEN <<"'">> \o e.val \o <<"'">>
         ELSE IF e.k = "bytes" THEN <<"b'">> \o e.val \o <<"'">>
         ELSE e.val
    [] e.t = "Attribute" -> RenderExpr(e.kids[1]) \o <<".", e.id>>
    [] e.t = "keyword" -> <<e.id, "=">> \o RenderExpr(e.kids[1])
    [] e.t = "Call" ->
         RenderExpr(e.kids[1]) \o <<"(">>
           \o Join([i \in DOMAIN (e.kids[2].kids \o e.kids[3].kids) |->
                      RenderExpr((e.kids[2].kids \o e.kids[3].kids)[i])], <<",", " ">>)
           \o <<")">>
    [] OTHER -> <<>>

\* One parameter: name, ": annotation" if annotated, "=default" if it is
\* among the last Len(defaults) parameters.
RenderParam(a, i) ==
  LET args == a.kids[1].kids
      defs == a.kids[2].kids
      d == i - (Len(args) - Len(defs))
  IN <<args[i].id>>
       \o (IF args[i].kids[1].t = "None" THEN <<>>
           ELSE <<":", " ">> \o RenderExpr(args[i].kids[1]))
       \o (IF d >= 1 THEN <<"=">> \o RenderExpr(defs[d]) ELSE <<>>)

RenderHeader(f) ==
  (IF f.t = "AsyncFunctionDef" THEN <<"async", " ">> ELSE <<>>)
    \o <<"def", " ", f.id, "(">>
    \o Join([i \in DOMAIN f.kids[1].kids[1].kids |-> RenderParam(f.kids[1], i)], <<",", " ">>)
    \o <<")">>
    \o (IF f.kids[4].t = "None" THEN <<>> ELSE <<" ", "->", " ">> \o RenderExpr(f.kids[4]))
    \o <<":">>

RECURSIVE RenderStmt(_, _, _)
RECURSIVE RenderBlock(_, _, _)
RECURSIVE RenderDef(_, _, _)

\* The statements of a block at nesting level lvl, each on a line of its own.
RenderBlock(stmts, lay, lvl) ==
  Concat([i \in DOMAIN stmts |->
            Repeat("\n", lay.nl) \o Repeat(" ", lvl * lay.ind) \o RenderStmt(stmts[i], lay, lvl)])

\* A def from its "def" (or "async") keyword to the end of its body.
RenderDef(f, lay, lvl) ==
  RenderHeader(f)
    \o (IF OneLine(f, lay)
        THEN <<" ">> \o Join([i \in DOMAIN f.kids[2].kids |->
                                RenderStmt(f.kids[2].kids[i], lay, lvl + 1)], <<";", " ">>)
        ELSE RenderBlock(f.kids[2].kids, lay, lvl + 1))

\* A statement from its first character (decorators included) to its last.
RenderStmt(s, lay, lvl) ==
  CASE s.t = "Assign" ->
         RenderExpr(s.kids[1].kids[1]) \o Repeat(" ", lay.sp) \o <<"=">>
           \o Repeat(" ", lay.sp) \o RenderExpr(s.kids[2])
    [] s.t = "Return" ->
         IF s.kids[1].t = "None" THEN <<"return">>
         ELSE <<"return", " ">> \o RenderExpr(s.kids[1])
    [] s.t = "Expr" -> RenderExpr(s.kids[1])
    [] s.t = "Pass" -> <<"pass">>
    [] s.t = "Import" ->
         <<"import", " ", s.kids[1].kids[1].id>>
           \o (IF s.kids[1].kids[1].k = "" THEN <<>>
               ELSE <<" ", "as", " ", s.kids[1].kids[1].k>>)
    [] s.t = "Try" ->
         <<"try", ":">> \o RenderBlock(s.kids[1].kids, lay, lvl + 1)
           \o Concat([i \in DOMAIN s.kids[2].kids |->
                        Repeat("\n", lay.nl) \o Repeat(" ", lvl * lay.ind)
                          \o RenderStmt(s.kids[2].kids[i], lay, lvl)])
    [] s.t = "ExceptHandler" ->
         <<"except", " ">> \o RenderExpr(s.kids[1])
           \o (IF s.id = "" THEN <<>> ELSE <<" ", "as", " ", s.id>>)
           \o <<":">> \o RenderBlock(s.kids[2].kids, lay, lvl + 1)
    [] s.t = "If" ->
         <<"if", " ">> \o RenderExpr(s.kids[1]) \o <<":">>
           \o RenderBlock(s.kids[2].kids, lay, lvl + 1)
           \o (IF s.kids[3].kids = <<>> THEN <<>>
               ELSE Repeat("\n", lay.nl) \o Repeat(" ", lvl * lay.ind) \o <<"else", ":">>
                      \o RenderBlock(s.kids[3].kids, lay, lvl + 1))
    [] s.t = "ClassDef" ->
         <<"class", " ", s.id, ":">> \o RenderBlock(s.kids[2].kids, lay, lvl + 1)
    [] IsFunction(s) ->
         Concat([i \in DOMAIN s.kids[3].kids |->
                   <<"@">> \o RenderExpr(s.kids[3].kids[i]) \o <<"\n">>
                     \o Repeat(" ", lvl * lay.ind)])
           \o RenderDef(s, lay, lvl)
    [] OTHER -> <<>>

\* ------------------------------------------------------------ positions
\* Lines a statement occupies when written in layout lay.
Height(s, lay) == 1 + CountOf("\n", RenderStmt(s, lay, 0))

RECURSIVE Locate(_, _, _, _)
RECURSIVE LocateBlock(_, _, _, _)

\* The statements of a block, the first one on line `line`.
LocateBlock(stmts, lay, line, lvl) ==
  IF stmts = <<>> THEN <<>>
  ELSE <<Locate(Head(stmts), lay, line, lvl)>>
         \o LocateBlock(Tail(stmts), lay, line + Height(Head(stmts), lay) - 1 + lay.nl, lvl)

\* ast.parse's position attributes: a statement whose first character
\* (decorators included) is on line `line`, at nesting level lvl.
Locate(s, lay, line, lvl) ==
  LET at == [s EXCEPT !.ln = line, !.eln = line + Height(s, lay) - 1, !.col = lvl]
      block(i, first) == [at.kids[i] EXCEPT !.kids = LocateBlock(@, lay, first, lvl + 1)]
  IN CASE IsFunction(s) ->
            LET def == line + Len(s.kids[3].kids)
            IN [at EXCEPT !.ln = def,
                          !.kids[2] =
                            IF OneLine(s, lay)
                            THEN [@ EXCEPT !.kids = [i \in DOMAIN @ |-> Locate(@[i], lay, def, lvl + 1)]]
                            ELSE [@ EXCEPT !.kids = LocateBlock(@, lay, def + lay.nl, lvl + 1)]]
       [] s.t \in {"ClassDef", "ExceptHandler"} ->
            [at EXCEPT !.kids[2] = block(2, line + lay.nl)]
       [] s.t = "If" ->
            LET body == block(2, line + lay.nl)
            IN [at EXCEPT !.kids[2] = body,
                          !.kids[3] = block(3, Last(body.kids).eln + 2 * lay.nl)]
       [] s.t = "Try" ->
            LET body == block(1, line + lay.nl)
            IN [at EXCEPT !.kids[1] = body,
                          !.kids[2] = [@ EXCEPT !.kids =
                                         LocateBlock(@, lay, Last(body.kids).eln + lay.nl, lvl)]]
       [] OTHER -> at

\* A module written in layout lay, its first statement on line 1.
LocateModule(m, lay) == [m EXCEPT !.kids[1] = [@ EXCEPT !.kids = LocateBlock(@, lay, 1, 0)]]

\* --------------------------------------------------------------- dedent
RECURSIVE SplitLines(_)
SplitLines(s) ==
  IF \A i \in DOMAIN s : s[i] # "\n" THEN <<s>>
  ELSE LET i == CHOOSE i \in DOMAIN s : s[i] = "\n" /\ \A j \in 1..(i - 1) : s[j] # "\n"
       IN <<SubSeq(s, 1, i - 1)>> \o SplitLines(SubSeq(s, i + 1, Len(s)))

IsBlank(line) == \A i \in DOMAIN line : line[i] \in {" ", "\t"}

\* Length of the longest prefix of spaces and tabs common to lines a and b.
RECURSIVE CommonIndent(_, _)
CommonIndent(a, b) ==
  IF a # <<>> /\ b # <<>> /\ Head(a) = Head(b) /\ Head(a) \in {" ", "\t"}
  THEN 1 + CommonIndent(Tail(a), Tail(b))
  ELSE 0

\* textwrap.dedent: lines of blanks only become empty, the longest leading
\* whitespace common to all other lines is removed from each.
Dedent(text) ==
  LET lines == SplitLines(text)
      full == {i \in DOMAIN lines : ~IsBlank(lines[i])}
      margin == IF full = {} THEN 0
                ELSE CHOOSE m \in 0..Len(text) :
                       /\ \A i, j \in full : CommonIndent(lines[i], lines[j]) >= m
                       /\ \E i, j \in full : CommonIndent(lines[i], lines[j]) = m
  IN Join([i \in DOMAIN lines |->
             IF i \in full THEN SubSeq(lines[i], margin + 1, Len(lines[i])) ELSE <<>>],
          <<"\n">>)

\* ------------------------------------------------------------ normalize
RECURSIVE LStrip(_)
LStrip(s) == IF s # <<>> /\ IsSpace(Head(s)) THEN LStrip(Tail(s)) ELSE s

RECURSIVE RStrip(_)
RStrip(s) == IF s # <<>> /\ IsSpace(Last(s)) THEN RStrip(SubSeq(s, 1, Len(s) - 1)) ELSE s

\* str.strip()
Strip(s) == RStrip(LStrip(s))

\* The pattern " +" in place of \s+: only runs of blanks are collapsed.
RECURSIVE BlankRunSub(_)
BlankRunSub(s) ==
  IF s = <<>> THEN <<>>
  ELSE IF Head(s) = " " /\ Len(s) > 1 /\ s[2] = " " THEN BlankRunSub(Tail(s))
  ELSE <<Head(s)>> \o BlankRunSub(Tail(s))

\* _ws_re.sub(" ", s): every maximal run of whitespace becomes one space.
RECURSIVE WsSub(_)
WsSub(s) ==
  IF s = <<>> THEN <<>>
  ELSE IF IsSpace(Head(s)) THEN <<" ">> \o WsSub(LStrip(s))
  ELSE <<Head(s)>> \o WsSub(Tail(s))

normalize_text(source) == WsSub(Strip(source))

\* -------------------------------------------------------- canonicalizer
\* isinstance(v, cls) on the Python type of a constant: bool is a subclass
\* of int.
IsInstance(type, classes) ==
  type \in classes \/ (type = "bool" /\ "int" \in classes)

IsDocstring(stmt) ==
  stmt.t = "Expr" /\ stmt.kids[1].t = "Constant" /\ IsInstance(stmt.kids[1].k, {"str"})

RECURSIVE visit(_)

\* NodeTransformer.generic_visit: every child field is visited.
generic_visit(node) == [node EXCEPT !.kids = [i \in DOMAIN @ |-> visit(@[i])]]

visit_FunctionDef(node) ==
  LET body == IF node.kids[2].kids # <<>> /\ IsDocstring(node.kids[2].kids[1])
              THEN Tail(node.kids[2].kids)
              ELSE node.kids[2].kids
  IN [node EXCEPT !.id = "FUNC",
                  !.kids[3] = [@ EXCEPT !.kids = [i \in DOMAIN @ |-> visit(@[i])]],
                  !.kids[1] = visit(@),
                  !.kids[2] = [@ EXCEPT !.kids = [i \in DOMAIN body |-> visit(body[i])]]]

visit_AsyncFunctionDef(node) == visit_FunctionDef(node)

visit_Name(node) == Name("ID", node.k)

visit_arg(node) == [node EXCEPT !.id = "ID"]

visit_Attribute(node) == [node EXCEPT !.kids[1] = visit(@), !.id = "ID"]

visit_alias(node) ==
  [node EXCEPT !.id = "ID", !.k = IF @ # "" THEN "ID" ELSE @]

visit_keyword(node) ==
  [node EXCEPT !.id = IF @ # "" THEN "KW" ELSE @, !.kids[1] = visit(@)]

visit_Constant(node) ==
  IF IsInstance(node.k, {"str"}) THEN Constant("str", <<"STR">>)
  ELSE IF IsInstance(node.k, {"int", "float", "complex"}) THEN Constant("int", <<"0">>)
  ELSE IF IsInstance(node.k, {"bytes"}) THEN Constant("bytes", <<"BYTES">>)
  ELSE node

\* NodeVisitor.visit: the method named after the node's class, else
\* generic_visit.
visit(node) ==
  CASE node.t = "FunctionDef" -> visit_FunctionDef(node)
    [] node.t = "AsyncFunctionDef" -> visit_AsyncFunctionDef(node)
    [] node.t = "Name" -> visit_Name(node)
    [] node.t = "arg" -> visit_arg(node)
    [] node.t = "Attribute" -> visit_Attribute(node)
    [] node.t = "alias" -> visit_alias(node)
    [] node.t = "keyword" -> visit_keyword(node)
    [] node.t = "Constant" -> visit_Constant(node)
    [] OTHER -> generic_visit(node)

\* ast.dump(tree, annotate_fields=True, include_attributes=False): the
\* class, the identifier fields and the children of every node, absent
\* (None) children left out, no position attribute.
RECURSIVE Dump(_)
Dump(n) ==
  IF n.t = "list"
  THEN <<"[">> \o Join([i \in DOMAIN n.kids |-> Dump(n.kids[i])], <<",", " ">>) \o <<"]">>
  ELSE <<n.t, "(">>
         \o (IF n.id = "" THEN <<>> ELSE <<"id=", n.id, ",">>)
         \o (IF n.k = "" THEN <<>> ELSE <<"k=", n.k, ",">>)
         \o (IF n.t = "Constant" THEN <<"value=">> \o RenderExpr(n) \o <<",">> ELSE <<>>)
         \o Concat([i \in DOMAIN n.kids |->
                      IF n.kids[i].t = "None" THEN <<>>
                      ELSE <<ToString(i), "=">> \o Dump(n.kids[i]) \o <<",">>])
         \o <<")">>

\* ast.walk counts every node; a Name or Attribute carries a ctx node.
RECURSIVE _count_nodes(_)
RECURSIVE CountAll(_)
CountAll(nodes) == IF nodes = <<>> THEN 0 ELSE _count_nodes(Head(nodes)) + CountAll(Tail(nodes))
_count_nodes(node) ==
  (IF node.t \in {"list", "None"} THEN 0
   ELSE IF node.t \in {"Name", "Attribute"} THEN 2
   ELSE 1) + CountAll(node.kids)

\* ------------------------------------------------------------ catalogue
\* The routines and files the inputs are drawn from.
IntLit(v) == Constant("int", <<v>>)
StrLit(val) == Constant("str", val)
LitTrue == Constant("bool", <<"True">>)
LitFalse == Constant("bool", <<"False">>)
LitNone == Constant("NoneType", <<"None">>)

Standard == Layout(4, 1, 1, FALSE)   \* "x = 1", four-space indentation
Narrow == Layout(2, 1, 1, FALSE)     \* two-space indentation
Wide == Layout(4, 3, 2, FALSE)       \* "x   =   1", blank lines
Tight == Layout(4, 0, 1, FALSE)      \* "x=1"
Inline == Layout(4, 0, 1, TRUE)      \* "def foo(): x=1; return x"
Layouts == {Standard, Narrow, Wide, Tight, Inline}

\* def <name>(): <x> = <lit>; return <x>
Routine(name, x, lit) ==
  FunctionDef(name, NoArgs, <<Assign(Store(x), lit), Return(Load(x))>>, <<>>, NoneNode)
Foo(x, lit) == Routine("foo", x, lit)

\* def __init__(self): self.data = 0
Init__(attr) ==
  FunctionDef("__init__", Arguments(<<Arg("self", NoneNode)>>, <<>>),
              <<Assign(Attribute(Load("self"), attr), IntLit("0"))>>, <<>>, NoneNode)

\* def outer(): def foo(): x = 1; return x / return foo
Outer ==
  FunctionDef("outer", NoArgs, <<Foo("x", IntLit("1")), Return(Load("foo"))>>, <<>>, NoneNode)

\* def f(a, b=1): try: tmp = a.size / except E as <e>: tmp = b / return tmp
Guarded(e) ==
  FunctionDef("f", Arguments(<<Arg("a", NoneNode), Arg("b", NoneNode)>>, <<IntLit("1")>>),
              <<Try(<<Assign(Store("tmp"), Attribute(Load("a"), "size"))>>,
                    <<ExceptHandler(Load("E"), e, <<Assign(Store("tmp"), Load("b"))>>)>>),
                Return(Load("tmp"))>>,
              <<>>, NoneNode)

\* def util_sum(<a>, <b>): '<doc>' / <tmp> = g(<a>, key=<b>) / return <tmp>
UtilSum(a, b, tmp, doc) ==
  FunctionDef("util_sum", Arguments(<<Arg(a, NoneNode), Arg(b, NoneNode)>>, <<>>),
              <<Expr(StrLit(doc)),
                Assign(Store(tmp), Call(Load("g"), <<Load(a)>>, <<Keyword("key", Load(b))>>)),
                Return(Load(tmp))>>,
              <<>>, NoneNode)

\* def <name>(<p>: <ann>) -> <ret>: return <p>, decorated with @<deco>
Typed(kind, name, p, ann, ret, deco, lit) ==
  Node(kind, name, "", <<>>,
       <<Arguments(<<Arg(p, ann)>>, <<lit>>),
         List(<<Import(<<Alias("os", "o")>>), Return(Load(p))>>),
         List(IF deco = "" THEN <<>> ELSE <<Load(deco)>>),
         ret>>)

\* def f(): return <lit>
Returns(lit) == FunctionDef("f", NoArgs, <<Return(lit)>>, <<>>, NoneNode)

\* ---------------------------------------------------------------- files
\* One entry of result.required_files: the file_info and the loaded content.
\* A parsable content is the module's tree together with the layout it is
\* written in; "bad" is text ast.parse rejects, "empty" the empty string.
File(filename, path, kind, tree, lay) ==
  [filename |-> filename, absolute_path |-> <<"/repo", path>>, relative_path |-> path,
   kind |-> kind, tree |-> tree, lay |-> lay]

PyFile(path, body, lay) == File(<<path, ".py">>, path, "text", Module(body), lay)

\* filename.lower().endswith(".py"); a filename is <<stem, extension>>.
Lower(ext) == IF ext = ".PY" THEN ".py" ELSE ext
IsPython(file) == Lower(file.filename[2]) = ".py"

\* ast.parse(src, filename=...) of a whole file.
ParseFile(file) ==
  IF file.kind = "text"
  THEN [ok |-> TRUE, tree |-> LocateModule(file.tree, file.lay)]
  ELSE [ok |-> FALSE, tree |-> NoneNode]

\* ------------------------------------------------------------ extractor
CodeUnit(id, file, rel_path, qualname, span, source) ==
  [id |-> id, file |-> file, rel_path |-> rel_path, qualname |-> qualname,
   span |-> span, source |-> source]

\* ".".join(stack + [name]): a qualname is the sequence of its dot-separated
\* components.
_qualify_name(stack, name) == IF stack # <<>> THEN stack \o <<name>> ELSE <<name>>

\* ast.get_source_segment(src, node): the text from the def keyword (the
\* decorator lines come before lineno) to the end of the body, the lines
\* after the first keeping their indentation.
get_source_segment(file, node) == RenderDef(node, file.lay, node.col)

\* getattr(node, "body", [])
Body(node) ==
  CASE node.t = "Module" -> node.kids[1].kids
    [] node.t \in {"If", "ExceptHandler"} -> node.kids[2].kids
    [] node.t = "Try" -> node.kids[1].kids
    [] OTHER -> <<>>

RECURSIVE extract_visit(_, _, _)
RECURSIVE VisitEach(_, _, _)

\* for child in ...: visit(child, class_stack)
VisitEach(children, file, acc) ==
  IF children = <<>> THEN acc
  ELSE VisitEach(Tail(children), file, extract_visit(Head(children), file, acc))

\* visit without class_stack.pop(): a class name stays on the stack.
ExtractVisitNoPop(node, file, acc) ==
  CASE node.t = "ClassDef" ->
         VisitEach(node.kids[2].kids, file, [acc EXCEPT !.class_stack = Append(@, node.id)])
    [] IsFunction(node) ->
         LET unit == CodeUnit(acc.next_id, file.absolute_path, file.relative_path,
                              _qualify_name(acc.class_stack, node.id),
                              <<node.ln, node.eln>>, get_source_segment(file, node))
         IN VisitEach(node.kids[2].kids, file,
                      [acc EXCEPT !.units = Append(@, unit), !.next_id = @ + 1])
    [] OTHER -> VisitEach(Body(node), file, acc)

\* visit(node, class_stack); acc holds units, next_id and the class stack,
\* which the code mutates in place.
extract_visit(node, file, acc) ==
  CASE node.t = "ClassDef" ->
         LET inner == VisitEach(node.kids[2].kids, file,
                                [acc EXCEPT !.class_stack = Append(@, node.id)])
         IN [inner EXCEPT !.class_stack = SubSeq(@, 1, Len(@) - 1)]
    [] IsFunction(node) ->
         LET unit == CodeUnit(acc.next_id, file.absolute_path, file.relative_path,
                              _qualify_name(acc.class_stack, node.id),
                              <<node.ln, node.eln>>, get_source_segment(file, node))
         IN VisitEach(node.kids[2].kids, file,
                      [acc EXCEPT !.units = Append(@, unit), !.next_id = @ + 1])
    [] OTHER -> VisitEach(Body(node), file, acc)

\* next_id = 0 moved inside the loop: the ids start again in every file.
ExtractFromRestart(file, units, next_id) ==
  IF ~IsPython(file) THEN [units |-> units, next_id |-> next_id]
  ELSE IF file.kind = "empty" THEN [units |-> units, next_id |-> next_id]
  ELSE IF ~ParseFile(file).ok THEN [units |-> units, next_id |-> next_id]
  ELSE LET acc == extract_visit(ParseFile(file).tree, file,
                                [units |-> units, next_id |-> 0, class_stack |-> <<>>])
       IN [units |-> acc.units, next_id |-> acc.next_id]

\* An id spent on every Python file with content, parsed or not.
ExtractFromCounting(file, units, next_id) ==
  IF ~IsPython(file) THEN [units |-> units, next_id |-> next_id]
  ELSE IF file.kind = "empty" THEN [units |-> units, next_id |-> next_id]
  ELSE IF ~ParseFile(file).ok THEN [units |-> units, next_id |-> next_id + 1]
  ELSE LET acc == extract_visit(ParseFile(file).tree, file,
                                [units |-> units, next_id |-> next_id, class_stack |-> <<>>])
       IN [units |-> acc.units, next_id |-> acc.next_id]

\* One iteration of the loop over result.required_files.items().
ExtractFrom(file, units, next_id) ==
  IF ~IsPython(file) THEN [units |-> units, next_id |-> next_id]
  ELSE IF file.kind = "empty" THEN [units |-> units, next_id |-> next_id]
  ELSE IF ~ParseFile(file).ok THEN [units |-> units, next_id |-> next_id]
  ELSE LET acc == extract_visit(ParseFile(file).tree, file,
                                [units |-> units, next_id |-> next_id, class_stack |-> <<>>])
       IN [units |-> acc.units, next_id |-> acc.next_id]

RECURSIVE ExtractAll(_, _, _)
ExtractAll(fs, units, next_id) ==
  IF fs = <<>> THEN units
  ELSE LET r == ExtractFrom(Head(fs), units, next_id)
       IN ExtractAll(Tail(fs), r.units, r.next_id)

extract_code_units(fs) == ExtractAll(fs, <<>>, 0)

\* --------------------------------------------------------------- runner
SimilarityConfig(strategy, threshold, max_candidates, include_init) ==
  [strategy |-> strategy, threshold |-> threshold, max_candidates |-> max_candidates,
   include_init |-> include_init]

\* Only the second test: a method of a class is let through.
IsBareInit(q) == q = <<"__init__">>

\* q.endswith(".__init__") or q == "__init__"
IsInit(q) == (Len(q) >= 2 /\ Last(q) = "__init__") \/ q = <<"__init__">>

_filter_units(units, include_init) ==
  IF include_init THEN units
  ELSE SelectSeq(units, LAMBDA u : ~IsInit(u.qualname))

\* max_candidates honoured as a cap on the units that are compared.
FilterAndCap(us, cf) ==
  LET kept == _filter_units(us, cf.include_init)
  IN IF cf.max_candidates > 0 /\ cf.max_candidates < Len(kept)
     THEN SubSeq(kept, 1, cf.max_candidates) ELSE kept

\* units = _filter_units(units, include_init=cfg.include_init): the one
\* field of the configuration handed on.
FilterFor(us, cf) == _filter_units(us, cf.include_init)

\* The requested name kept as the instance's name.
RequestedName(requested) == requested

\* if cfg.strategy == "ast": ASTCanonicalHashStrategy() else: ExactHashStrategy();
\* the name is the class attribute of the instance made.
SelectedName(requested) == IF requested = "ast" THEN "ast" ELSE "exact"

\* ---------------------------------------------------------------- inputs
\* Module bodies with the layout each is written in: <<body, layout>>.
One == IntLit("1")
Two == IntLit("2")

\* Files exercising the extractor and the grouping core.
CoreTexts ==
  { <<<<Foo("x", One)>>, Standard>>,
    <<<<Foo("x", One)>>, Wide>>,
    <<<<Foo("x", Two), Foo("x", One)>>, Standard>>,
    <<<<Foo("x", One), Foo("x", One)>>, Narrow>>,
    <<<<ClassDef("A", <<Init__("data"), Foo("x", One)>>)>>, Standard>>,
    <<<<ClassDef("B", <<Init__("data")>>), Outer>>, Standard>>,
    <<<<If(Load("flag"), <<Foo("x", Two)>>, <<Foo("x", One)>>)>>, Standard>> }

\* One routine per file, written in different ways.
ExactTexts ==
  { <<<<Foo("x", One)>>, Standard>>,
    <<<<Foo("x", One)>>, Narrow>>,
    <<<<Foo("x", One)>>, Wide>>,
    <<<<Foo("x", One)>>, Tight>>,
    <<<<Foo("x", One)>>, Inline>>,
    <<<<Foo("x", Two)>>, Standard>>,
    <<<<Foo("x", StrLit(<<"a", " ", "b">>))>>, Standard>>,
    <<<<Foo("x", StrLit(<<"a", " ", " ", "b">>))>>, Standard>>,
    <<<<Foo("tmp", One)>>, Standard>> }

\* Routines that differ in names and literals only.
AstTexts ==
  { <<<<UtilSum("a", "b", "tmp", <<"doc">>)>>, Standard>>,
    <<<<UtilSum("a", "b", "total", <<"doc">>)>>, Standard>>,
    <<<<UtilSum("p", "q", "tmp", <<"other">>)>>, Narrow>>,
    <<<<Guarded("e")>>, Standard>>,
    <<<<Guarded("err")>>, Standard>>,
    <<<<Foo("x", One)>>, Standard>>,
    <<<<Foo("x", Two)>>, Standard>>,
    <<<<Foo("x", StrLit(<<"a">>))>>, Standard>>,
    <<<<Foo("x", LitTrue)>>, Standard>> }

\* Routines handed to the canonicalizer directly.
CanonTrees ==
  { Typed(kind, "h", p, ann, ret, deco, lit) :
      kind \in {"FunctionDef"}, p \in {"p"}, ann \in {NoneNode}, ret \in {NoneNode},
      deco \in {""},
      lit \in {One, Two, LitTrue, LitFalse, LitNone, StrLit(<<"a">>), StrLit(<<"b">>),
               Constant("float", <<"1.5">>), Constant("complex", <<"2j">>),
               Constant("bytes", <<"a">>)} }
    \cup { Typed(kind, "h", p, ann, ret, deco, One) :
             kind \in {"FunctionDef", "AsyncFunctionDef"}, p \in {"p", "q"},
             ann \in {NoneNode, Load("T"), Load("V")}, ret \in {NoneNode, Load("U")},
             deco \in {"", "deco"} }
    \cup { UtilSum("a", "b", "tmp", <<"doc">>), UtilSum("p", "q", "total", <<"other">>),
           Guarded("e"), Guarded("err"), Outer, Returns(LitTrue), Returns(LitNone),
           Returns(One) }

\* Files with routines nested in classes and classes nested in routines.
NestTexts ==
  { <<<<ClassDef("A", <<ClassDef("B", <<Foo("x", One)>>), Foo("x", One)>>)>>, Standard>>,
    <<<<ClassDef("A", <<Outer>>), Foo("x", One)>>, Standard>>,
    <<<<Outer, Foo("x", One)>>, Narrow>>,
    <<<<FunctionDef("make", NoArgs,
                    <<ClassDef("K", <<Init__("data")>>), Return(Load("K"))>>,
                    <<>>, NoneNode)>>, Standard>>,
    <<<<Foo("x", Two)>>, Standard>> }

RECURSIVE FunctionsIn(_)
FunctionsIn(n) ==
  (IF IsFunction(n) THEN {n} ELSE {})
    \cup UNION {FunctionsIn(n.kids[i]) : i \in DOMAIN n.kids}

KnownFunctions ==
  CanonTrees
    \cup UNION {FunctionsIn(Module(t[1])) : t \in CoreTexts \cup ExactTexts \cup AstTexts \cup NestTexts}

NoDecorators(f) == [f EXCEPT !.kids[3] = List(<<>>)]

\* ----------------------------------------------------------------- parse
\* ast.parse on the text of one routine: the texts that parse, each with
\* its tree.  A text is a def from its keyword on (any layout, the body at
\* any nesting level) or a whole decorated def.
ParseTable ==
  { <<RenderDef(f, lay, lvl), NoDecorators(f)>> :
      f \in KnownFunctions, lay \in Layouts, lvl \in 0..MaxDepth }
    \cup { <<RenderStmt(f, lay, 0), f>> : f \in KnownFunctions, lay \in Layouts }

ast_parse(src) ==
  LET hits == {p \in ParseTable : p[1] = src}
  IN IF hits = {} THEN [ok |-> FALSE, tree |-> NoneNode]
     ELSE [ok |-> TRUE, tree |-> Module(<<(CHOOSE p \in hits : TRUE)[2]>>)]

\* The fallback without .strip().
CanonUntrimmed(source) ==
  LET parsed == ast_parse(Dedent(source))
      tree == visit(parsed.tree)
  IN IF parsed.ok
     THEN [canon |-> Dump(tree), node_count |-> _count_nodes(tree)]
     ELSE [canon |-> Dedent(source), node_count |-> 0]

canonicalize_function_info(source) ==
  LET parsed == ast_parse(Dedent(source))
      tree == visit(parsed.tree)
  IN IF parsed.ok
     THEN [canon |-> Dump(tree), node_count |-> _count_nodes(tree)]
     ELSE [canon |-> Strip(Dedent(source)), node_count |-> 0]

canonicalize_function_source(source) == canonicalize_function_info(source).canon

\* ----------------------------------------------------------- strategies
\* A character str.encode("utf-8", errors="ignore") drops.
LoneSurrogate == "<U+DC80>"
Utf8Encode(text) == SelectSeq(text, LAMBDA a : a # LoneSurrogate)

\* hashlib.sha256(...).hexdigest(), taken to be free of collisions.
Sha256Hex(bytes) == <<"sha256:">> \o bytes

\* ASTCanonicalHashStrategy._key
ASTCanonicalHashStrategy_key(unit) ==
  Sha256Hex(Utf8Encode(canonicalize_function_source(unit.source)))

\* The canonical key taken for the exact strategy too.
CanonicalKey(unit) == ASTCanonicalHashStrategy_key(unit)

\* The wrong field hashed: the qualified name in place of the source.
QualnameKey(unit) == Sha256Hex(Utf8Encode(unit.qualname))

\* ExactHashStrategy._key
ExactHashStrategy_key(unit) == Sha256Hex(Utf8Encode(normalize_text(unit.source)))

\* self._key(u) of the strategy named `name`.
StrategyKey(name, unit) ==
  IF name = "ast" THEN ASTCanonicalHashStrategy_key(unit) ELSE ExactHashStrategy_key(unit)

\* Grouping of consecutive equal keys only: a key met again after another
\* one starts a new entry.
AppendToRun(map, key, id) ==
  IF map # <<>> /\ map[Len(map)].key = key
  THEN [map EXCEPT ![Len(map)].ids = Append(@, id)]
  ELSE Append(map, [key |-> key, ids |-> <<id>>])

\* insert(0, id) in place of append: the newest id goes first.
MapPrepend(map, key, id) ==
  IF \E i \in DOMAIN map : map[i].key = key
  THEN [i \in DOMAIN map |->
          IF map[i].key = key THEN [map[i] EXCEPT !.ids = <<id>> \o @] ELSE map[i]]
  ELSE Append(map, [key |-> key, ids |-> <<id>>])

\* self.map[key].append(id) on a defaultdict(list): a new key goes last.
MapAppend(map, key, id) ==
  IF \E i \in DOMAIN map : map[i].key = key
  THEN [i \in DOMAIN map |->
          IF map[i].key = key THEN [map[i] EXCEPT !.ids = Append(@, id)] ELSE map[i]]
  ELSE Append(map, [key |-> key, ids |-> <<id>>])

\* A source field that holds None in place of a str.
NoSource == <<"<None>">>

\* self._key(u) raises: the base class always (NotImplementedError), the
\* shipped strategies on a source that is not a str (None.strip(), and
\* textwrap.dedent(None) once more inside the fallback of the canonicalizer).
KeyRaises(name, unit) == name = "base" \/ unit.source = NoSource

\* The failure filed under an empty key in place of `continue`.
PrepareStepEmptyKey(map, name, u) ==
  IF KeyRaises(name, u) THEN MapAppend(map, <<>>, u.id)
  ELSE MapAppend(map, StrategyKey(name, u), u.id)

\* One iteration of prepare: try: key = self._key(u) / except Exception:
\* continue / self.map[key].append(u.id)
PrepareStep(map, name, u) ==
  IF KeyRaises(name, u) THEN map
  ELSE MapAppend(map, StrategyKey(name, u), u.id)

Cluster(id, member_ids, strategy, score_min, score_max) ==
  [id |-> id, member_ids |-> member_ids, strategy |-> strategy,
   score_min |-> score_min, score_max |-> score_max]

Match(a_id, b_id, score, strategy) ==
  [a_id |-> a_id, b_id |-> b_id, score |-> score, strategy |-> strategy]

\* The inner loop cut short: only neighbours are paired.
NeighbourMatches(ids, name) ==
  [i \in 1..(Len(ids) - 1) |-> Match(ids[i], ids[i + 1], "1.0", name)]

\* for i in range(len(ids)): for j in range(i + 1, len(ids)): ...
PairwiseMatches(ids, name) ==
  Concat([i \in DOMAIN ids |->
            [d \in 1..(Len(ids) - i) |-> Match(ids[i], ids[i + d], "1.0", name)]])

\* The test off by one: only an empty list is skipped.
IsEmptyList(ids) == Len(ids) < 1

\* if len(ids) <= 1: continue
IsSingle(ids) == Len(ids) <= 1

\* cid taken from the position of the key in the map: single-member keys
\* use up ids.
RECURSIVE FindLoopEnumerated(_, _, _)
FindLoopEnumerated(entries, name, acc) ==
  IF entries = <<>> THEN acc
  ELSE LET ids == Head(entries).ids
       IN IF IsSingle(ids)
          THEN FindLoopEnumerated(Tail(entries), name, [acc EXCEPT !.cid = @ + 1])
          ELSE FindLoopEnumerated(Tail(entries), name,
                        [clusters |-> Append(acc.clusters,
                                             Cluster(acc.cid, ids, name, "1.0", "1.0")),
                         matches |-> acc.matches \o PairwiseMatches(ids, name),
                         cid |-> acc.cid + 1])

RECURSIVE FindLoop(_, _, _)
FindLoop(entries, name, acc) ==
  IF entries = <<>> THEN acc
  ELSE LET ids == Head(entries).ids
       IN IF IsSingle(ids) THEN FindLoop(Tail(entries), name, acc)
          ELSE FindLoop(Tail(entries), name,
                        [clusters |-> Append(acc.clusters,
                                             Cluster(acc.cid, ids, name, "1.0", "1.0")),
                         matches |-> acc.matches \o PairwiseMatches(ids, name),
                         cid |-> acc.cid + 1])

\* The clusters taken from the ids of the units handed in only.
FindClustersOfArgument(map, name, units) ==
  LET handed(id) == \E j \in DOMAIN units : units[j].id = id
      kept == [i \in DOMAIN map |-> [map[i] EXCEPT !.ids = SelectSeq(@, handed)]]
  IN FindLoop(kept, name, [clusters |-> <<>>, matches |-> <<>>, cid |-> 0])

\* find_clusters(self, units): the loop runs over self.map; units is not read.
find_clusters(map, name, units) ==
  FindLoop(map, name, [clusters |-> <<>>, matches |-> <<>>, cid |-> 0])

\* ----------------------------------------------------------- formatting
\* A JSON-friendly Python value: an int, a float (its repr), a str, a list,
\* or a dict with its keys in insertion order.
JInt(n) == [kind |-> "int", n |-> n, s |-> "", keys |-> <<>>, items |-> <<>>]
JFloat(repr) == [kind |-> "float", n |-> 0, s |-> repr, keys |-> <<>>, items |-> <<>>]
JStr(text) == [kind |-> "str", n |-> 0, s |-> text, keys |-> <<>>, items |-> <<>>]
JList(items) == [kind |-> "list", n |-> 0, s |-> "", keys |-> <<>>, items |-> items]
JDict(keys, items) == [kind |-> "dict", n |-> 0, s |-> "", keys |-> keys, items |-> items]

\* The str a qualname or a path stands for.
RECURSIVE JoinText(_, _)
JoinText(parts, sep) ==
  IF parts = <<>> THEN ""
  ELSE IF Len(parts) = 1 THEN parts[1]
  ELSE parts[1] \o sep \o JoinText(Tail(parts), sep)

UnitJson(u) ==
  JDict(<<"id", "file", "rel_path", "qualname", "span">>,
        <<JInt(u.id), JStr(JoinText(u.file, "/")), JStr(u.rel_path),
          JStr(JoinText(u.qualname, ".")), JList(<<JInt(u.span[1]), JInt(u.span[2])>>)>>)

ClusterJson(c) ==
  JDict(<<"id", "member_ids", "strategy", "score_min", "score_max">>,
        <<JInt(c.id), JList([i \in DOMAIN c.member_ids |-> JInt(c.member_ids[i])]),
          JStr(c.strategy), JFloat(c.score_min), JFloat(c.score_max)>>)

MatchJson(m) ==
  JDict(<<"a_id", "b_id", "score", "strategy">>,
        <<JInt(m.a_id), JInt(m.b_id), JFloat(m.score), JStr(m.strategy)>>)

\* Only the units that are members of a cluster are written.
SerializeClustered(sim) ==
  LET member(u) == \E k \in DOMAIN sim.clusters :
                     \E p \in DOMAIN sim.clusters[k].member_ids :
                       sim.clusters[k].member_ids[p] = u.id
      kept == SelectSeq(sim.units, member)
  IN JDict(<<"meta", "units", "clusters", "matches">>,
           <<JDict(<<"strategy">>, <<JStr(sim.meta)>>),
             JList([i \in DOMAIN kept |-> UnitJson(kept[i])]),
             JList([i \in DOMAIN sim.clusters |-> ClusterJson(sim.clusters[i])]),
             JList([i \in DOMAIN sim.matches |-> MatchJson(sim.matches[i])])>>)

\* serialize_similarity for a result that holds a SimilarityResult (a
\* dataclass instance is always truthy).
serialize_similarity(sim) ==
  JDict(<<"meta", "units", "clusters", "matches">>,
        <<JDict(<<"strategy">>, <<JStr(sim.meta)>>),
          JList([i \in DOMAIN sim.units |-> UnitJson(sim.units[i])]),
          JList([i \in DOMAIN sim.clusters |-> ClusterJson(sim.clusters[i])]),
          JList([i \in DOMAIN sim.matches |-> MatchJson(sim.matches[i])])>>)

\* JSON text as its sequence of tokens: numbers, strings and punctuation.
Token(k, v) == [k |-> k, v |-> v]
Punct(v) == Token("punct", v)

\* json.dump(payload, f, ...)
RECURSIVE json_dump(_)
json_dump(v) ==
  CASE v.kind = "int" -> <<Token("num", ToString(v.n))>>
    [] v.kind = "float" -> <<Token("num", v.s)>>
    [] v.kind = "str" -> <<Token("str", v.s)>>
    [] v.kind = "list" ->
         <<Punct("[")>> \o Join([i \in DOMAIN v.items |-> json_dump(v.items[i])], <<Punct(",")>>)
                        \o <<Punct("]")>>
    [] v.kind = "dict" ->
         <<Punct("{")>>
           \o Join([i \in DOMAIN v.items |->
                      <<Token("str", v.keys[i]), Punct(":")>> \o json_dump(v.items[i])],
                   <<Punct(",")>>)
           \o <<Punct("}")>>

\* json.loads(text): the value that starts at token i and the index after it.
RECURSIVE json_value(_, _)
RECURSIVE json_items(_, _, _)
RECURSIVE json_members(_, _, _, _)

json_number(toks, i) ==
  IF \E n \in 0..Len(toks) : ToString(n) = toks[i].v
  THEN JInt(CHOOSE n \in 0..Len(toks) : ToString(n) = toks[i].v)
  ELSE JFloat(toks[i].v)

json_value(toks, i) ==
  CASE toks[i].k = "num" -> [val |-> json_number(toks, i), next |-> i + 1]
    [] toks[i].k = "str" -> [val |-> JStr(toks[i].v), next |-> i + 1]
    [] toks[i] = Punct("[") ->
         IF toks[i + 1] = Punct("]") THEN [val |-> JList(<<>>), next |-> i + 2]
         ELSE json_items(toks, i + 1, <<>>)
    [] toks[i] = Punct("{") ->
         IF toks[i + 1] = Punct("}") THEN [val |-> JDict(<<>>, <<>>), next |-> i + 2]
         ELSE json_members(toks, i + 1, <<>>, <<>>)

json_items(toks, i, items) ==
  LET r == json_value(toks, i)
  IN IF toks[r.next] = Punct(",") THEN json_items(toks, r.next + 1, Append(items, r.val))
     ELSE [val |-> JList(Append(items, r.val)), next |-> r.next + 1]

json_members(toks, i, keys, items) ==
  LET r == json_value(toks, i + 2)
  IN IF toks[r.next] = Punct(",")
     THEN json_members(toks, r.next + 1, Append(keys, toks[i].v), Append(items, r.val))
     ELSE [val |-> JDict(Append(keys, toks[i].v), Append(items, r.val)), next |-> r.next + 1]

json_loads(toks) == json_value(toks, 1).val

\* --------------------------------------------------------- the summary
\* A printed line: what it is, its text, the strategy and the numbers and
\* the qualname formatted into it.
ConsoleLine(kind, text, strategy, nums, qualname) ==
  [kind |-> kind, text |-> text, strategy |-> strategy, nums |-> nums, qualname |-> qualname]

HeaderLine == ConsoleLine("header", "Similar or Duplicate Functions", "", <<>>, <<>>)
DividerLine == ConsoleLine("divider", "", "", <<>>, <<>>)
NoDuplicatesLine(strategy) == ConsoleLine("info", "No duplicates found", strategy, <<>>, <<>>)
SummaryLine(strategy, sim) ==
  ConsoleLine("info", "Strategy", strategy, <<Len(sim.units), Len(sim.clusters)>>, <<>>)
ClusterLine(cluster) ==
  ConsoleLine("cluster", "", "", <<cluster.id, Len(cluster.member_ids)>>, <<>>)
MemberLine(u) == ConsoleLine("member", u.rel_path, "", <<u.span[1], u.span[2]>>, u.qualname)

\* The place of a relative path in the order of str: paths are "f1", "f2", ...
PathRank(path) == CHOOSE i \in 1..(MaxFiles + 1) : path = "f" \o ToString(i)

\* (a.rel_path, a.span[0]) <= (b.rel_path, b.span[0])
KeyLessEq(a, b) ==
  \/ PathRank(a.rel_path) < PathRank(b.rel_path)
  \/ PathRank(a.rel_path) = PathRank(b.rel_path) /\ a.span[1] <= b.span[1]

\* The members printed as they stand in sim.units.
UnsortedMembers(members) == members

\* sorted(members, key=lambda x: (x.rel_path, x.span[0])): stable.
RECURSIVE SortedMembers(_)
SortedMembers(members) ==
  IF members = <<>> THEN <<>>
  ELSE LET rest == SortedMembers(SubSeq(members, 1, Len(members) - 1))
           last == members[Len(members)]
           before == SelectSeq(rest, LAMBDA u : KeyLessEq(u, last))
           after == SelectSeq(rest, LAMBDA u : ~KeyLessEq(u, last))
       IN before \o <<last>> \o after

\* One cluster of the listing.
ClusterBlock(sim, cluster) ==
  LET ids == {cluster.member_ids[p] : p \in DOMAIN cluster.member_ids}
      members == SelectSeq(sim.units, LAMBDA u : u.id \in ids)
      shown == SortedMembers(members)
  IN <<ClusterLine(cluster)>> \o [i \in DOMAIN shown |-> MemberLine(shown[i])]

\* print_similarity_summary(sim, strategy, show_members); sim is <<>> for None.
print_similarity_summary(sim, strategy, show_members) ==
  IF sim = <<>> \/ sim[1].clusters = <<>>
  THEN <<HeaderLine, NoDuplicatesLine(strategy)>>
  ELSE <<HeaderLine, SummaryLine(strategy, sim[1])>>
         \o (IF show_members
             THEN Concat([k \in DOMAIN sim[1].clusters |-> ClusterBlock(sim[1], sim[1].clusters[k])])
             ELSE <<>>)

\* ------------------------------------------------------ command handlers
Namespace(similarity_, strategy, include_init, json_path, print_members, mode) ==
  [similarity |-> similarity_, strategy |-> strategy, include_init |-> include_init,
   json_path |-> json_path, print_members |-> print_members, mode |-> mode]

LogRecord(level, msg) == [level |-> level, msg |-> msg]

\* handle_analyze_command: SimilarityConfig(strategy=..., threshold=...,
\* max_candidates=...); include_init is left at its default.
AnalyzeConfig(a) == SimilarityConfig(a.strategy, "1.0", 0, FALSE)

\* handle_sim_command: SimilarityConfig(strategy=..., threshold=...,
\* include_init=getattr(args, "include_init", False))
SimConfig(a) == SimilarityConfig(a.strategy, "1.0", 0, a.include_init)

\* The failure of the similarity pass treated as fatal.
AbortOnRunError ==
  [log |-> <<LogRecord("error", "Similarity analysis failed")>>, hpc |-> "exit", status |-> <<1>>]

\* handle_analyze_command, except Exception around run_similarity: log.
AnalyzeOnRunError ==
  [log |-> <<LogRecord("error", "Similarity analysis failed")>>, hpc |-> "output", status |-> <<>>]

\* handle_sim_command, except Exception around run_similarity: log, return 1.
SimOnRunError ==
  [log |-> <<LogRecord("error", "Similarity analysis failed")>>, hpc |-> "exit", status |-> <<1>>]

\* handle_analyze_command, except Exception around the JSON write: log; the
\* handler goes on to return 0.
AnalyzeOnWriteError ==
  [log |-> <<LogRecord("error", "Failed writing similarity JSON")>>, status |-> <<0>>]

\* handle_sim_command, except Exception around the JSON write: log, return 1.
SimOnWriteError ==
  [log |-> <<LogRecord("error", "Failed writing similarity JSON")>>, status |-> <<1>>]

\* serialize_similarity(result): {} while result.similarity is unset.
Payload(sim) == IF sim = <<>> THEN JDict(<<>>, <<>>) ELSE serialize_similarity(sim[1])

\* The strategy named in the summary of the analyze command.
AnalyzeStrategy(sim, a) == IF sim # <<>> THEN sim[1].meta ELSE a.strategy

\* --------------------------------------------------------------- ingest
\* What a task of _process_file ends with: its return value or the
\* exception gather hands back.
Returned(n) == [kind |-> "int", n |-> n]
Raised == [kind |-> "exception", n |-> 0]

\* A file to index: the number of chunks chunk_file makes of it and what
\* goes wrong with it: "read", "embed" and "store" are failures
\* _process_file catches, "delete" and "upsert" exceptions it lets through.
IngestFile(chunks, fault) == [chunks |-> chunks, fault |-> fault]

\* One turn of the loop over file_results.
TallyStep(res, acc) ==
  IF res.kind = "exception" THEN acc
  ELSE IF res.n # 0 THEN [files |-> acc.files + 1, chunks |-> acc.chunks + res.n]
  ELSE acc

\* The loop left at the first exception.
RECURSIVE TallyUntilException(_, _)
TallyUntilException(file_results, acc) ==
  IF file_results = <<>> \/ Head(file_results).kind = "exception" THEN acc
  ELSE TallyUntilException(Tail(file_results), TallyStep(Head(file_results), acc))

\* for res in file_results: ...
RECURSIVE Tally(_, _)
Tally(file_results, acc) ==
  IF file_results = <<>> THEN acc
  ELSE Tally(Tail(file_results), TallyStep(Head(file_results), acc))

\* ---------------------------------------------------------------- state
VARIABLES
  files,      \* result.required_files, in the order of its items()
  cfg,        \* the SimilarityConfig of each call of run
  sched,      \* "successive": a call starts when the one before has returned
  pc,         \* where each call of run stands
  fidx,       \* extract_code_units: index of the next file
  units,      \* the local units of extract_code_units, then of run
  next_id,    \* extract_code_units: the next unit id
  strat,      \* name of the strategy instance of the call ("" before it is made)
  smap,       \* the instance's map, in insertion order: [key, ids] entries
  uidx,       \* prepare: index of the next unit
  found,      \* what find_clusters returned: [clusters, matches]
  result,     \* the SimilarityResult returned
  cpc,        \* where a direct call of canonicalize_function_info stands
  csource,    \* its argument
  ctree,      \* its local tree
  cresult,    \* what it returned: [canon, node_count]
  jtext,      \* the JSON text written for each call (<<>> before it is written)
  passed,     \* all units a direct caller has handed to prepare on the instance
  command,    \* the CLI command that makes the call: "analyze", "sim" or "" (none)
  cli_args,       \* its parsed arguments
  env,        \* what fails around it: the run, the main output, the JSON write
  hpc,        \* where the command handler stands
  similarity, \* result.similarity: <<>> while unset, else <<the SimilarityResult>>
  log,        \* the records handed to the logger
  console,    \* the lines printed
  produced,   \* the main output produced: "" or the mode it was produced in
  status,     \* the handler's return value: <<>> until it returns
  paths,      \* index_paths: for each path, the files scan_directory finds in it
  ipc,        \* where index_paths stands ("off": it is not called)
  ipath,      \* index of the path at hand
  tpc,        \* where the task of each file of that path stands
  tres,       \* what each task ended with: <<>> while it runs
  results,    \* the results dict: files and chunks
  stored      \* the files whose rows are in the vector store, as <<path, file>>

vars == <<files, cfg, sched, pc, fidx, units, next_id, strat, smap, uidx, found, result,
          cpc, csource, ctree, cresult, jtext, passed,
          command, cli_args, env, hpc, similarity, log, console, produced, status,
          paths, ipc, ipath, tpc, tres, results, stored>>
runVars == <<files, cfg, sched, pc, fidx, units, next_id, strat, smap, uidx, found, result>>
canonVars == <<cpc, csource, ctree, cresult>>
outVars == <<jtext>>
callerVars == <<passed>>
cliVars == <<command, cli_args, env, hpc, similarity, log, console, produced, status>>
ingestVars == <<paths, ipc, ipath, tpc, tres, results, stored>>

Calls == DOMAIN cfg
NoResult == [units |-> <<>>, clusters |-> <<>>, matches |-> <<>>, meta |-> ""]
NoCanon == [canon |-> <<>>, node_count |-> 0]

\* A map kept on the class, which every instance then shares.
SharedMap(c) == IF c > 1 THEN smap[c - 1] ELSE <<>>

\* One map for all instances alive: a new instance starts from the map of
\* another call's instance as it stands.
MapOfOthers(c) ==
  IF \E d \in Calls : d # c /\ strat[d] # ""
  THEN smap[CHOOSE d \in Calls : d # c /\ strat[d] # ""]
  ELSE <<>>

\* _HashSimilarityStrategy.__init__: self.map = defaultdict(list)
StrategyInit(c) == <<>>

\* The result built without its units.
ResultWithoutUnits(us, clusters, matches, meta) ==
  [units |-> <<>>, clusters |-> clusters, matches |-> matches, meta |-> meta]

SimilarityResult(us, clusters, matches, meta) ==
  [units |-> us, clusters |-> clusters, matches |-> matches, meta |-> meta]

\* What a direct caller hands to a second prepare after `first`: a slice of
\* the units it handed in before, or one unit not seen before.
SecondUnits(first) ==
  {SubSeq(first, i, j) : i \in 1..(Len(first) + 1), j \in 0..Len(first)}
    \cup {<<CodeUnit(Len(first), <<"/repo", "f1">>, "f1", <<"foo">>, <<1, 3>>, src)>> :
            src \in {RenderDef(Foo("x", One), Standard, 0), RenderDef(Foo("x", Two), Standard, 0)}}

\* -------------------------------------------------------------- actions
\* run(result, config) is called.
CallRun(c) ==
  /\ pc[c] = "idle"
  /\ sched = "successive" => \A d \in Calls : d < c => pc[d] = "done"
  /\ pc' = [pc EXCEPT ![c] = "extract"]
  /\ fidx' = [fidx EXCEPT ![c] = 1]
  /\ units' = [units EXCEPT ![c] = <<>>]
  /\ next_id' = [next_id EXCEPT ![c] = 0]
  /\ UNCHANGED <<files, cfg, sched, strat, smap, uidx, found, result, canonVars, outVars, callerVars, ingestVars, cliVars>>

\* extract_code_units: one file of the map.
ExtractFile(c) ==
  /\ pc[c] = "extract"
  /\ fidx[c] <= Len(files)
  /\ LET r == ExtractFrom(files[fidx[c]], units[c], next_id[c])
     IN /\ units' = [units EXCEPT ![c] = r.units]
        /\ next_id' = [next_id EXCEPT ![c] = r.next_id]
  /\ fidx' = [fidx EXCEPT ![c] = @ + 1]
  /\ UNCHANGED <<files, cfg, sched, pc, strat, smap, uidx, found, result, canonVars, outVars, callerVars, ingestVars, cliVars>>

\* extract_code_units returns; units = _filter_units(units, cfg.include_init).
Filter(c) ==
  /\ pc[c] = "extract"
  /\ fidx[c] > Len(files)
  /\ units' = [units EXCEPT ![c] = FilterFor(@, cfg[c])]
  /\ pc' = [pc EXCEPT ![c] = "select"]
  /\ UNCHANGED <<files, cfg, sched, fidx, next_id, strat, smap, uidx, found, result, canonVars, outVars, callerVars, ingestVars, cliVars>>

\* The strategy instance is made.
SelectStrategy(c) ==
  /\ pc[c] = "select"
  /\ strat' = [strat EXCEPT ![c] = SelectedName(cfg[c].strategy)]
  /\ smap' = [smap EXCEPT ![c] = StrategyInit(c)]
  /\ uidx' = [uidx EXCEPT ![c] = 1]
  /\ pc' = [pc EXCEPT ![c] = "prepare"]
  /\ UNCHANGED <<files, cfg, sched, fidx, units, next_id, found, result, canonVars, outVars, callerVars, ingestVars, cliVars>>

\* prepare: one unit.  Within run neither shipped _key raises: every source
\* is a str.
PrepareUnit(c) ==
  /\ pc[c] = "prepare"
  /\ uidx[c] <= Len(units[c])
  /\ smap' = [smap EXCEPT ![c] = PrepareStep(@, strat[c], units[c][uidx[c]])]
  /\ uidx' = [uidx EXCEPT ![c] = @ + 1]
  /\ UNCHANGED <<files, cfg, sched, pc, fidx, units, next_id, strat, found, result, canonVars, outVars, callerVars, ingestVars, cliVars>>

\* prepare returns; clusters, matches = strat.find_clusters(units).
FindClusters(c) ==
  /\ pc[c] = "prepare"
  /\ uidx[c] > Len(units[c])
  /\ LET r == find_clusters(smap[c], strat[c], units[c])
     IN found' = [found EXCEPT ![c] = [clusters |-> r.clusters, matches |-> r.matches]]
  /\ pc' = [pc EXCEPT ![c] = "return"]
  /\ UNCHANGED <<files, cfg, sched, fidx, units, next_id, strat, smap, uidx, result, canonVars, outVars, callerVars, ingestVars, cliVars>>

\* A direct caller calls prepare once more on the same instance, with units
\* it has passed before or with one new unit.
PrepareCall(c) ==
  /\ pc[c] = "prepare"
  /\ uidx[c] > Len(units[c])
  /\ passed[c] = units[c]
  /\ \E again \in SecondUnits(units[c]) :
       /\ units' = [units EXCEPT ![c] = again]
       /\ passed' = [passed EXCEPT ![c] = @ \o again]
  /\ uidx' = [uidx EXCEPT ![c] = 1]
  /\ UNCHANGED <<files, cfg, sched, pc, fidx, next_id, strat, smap, found, result,
                 canonVars, outVars, cliVars, ingestVars>>

\* A direct caller calls find_clusters with a units argument of its choice.
FindClustersDirect(c) ==
  /\ pc[c] = "prepare"
  /\ uidx[c] > Len(units[c])
  /\ \E arg \in {<<>>, units[c], passed[c]} :
       /\ units' = [units EXCEPT ![c] = arg]
       /\ LET r == find_clusters(smap[c], strat[c], arg)
          IN found' = [found EXCEPT ![c] = [clusters |-> r.clusters, matches |-> r.matches]]
  /\ pc' = [pc EXCEPT ![c] = "return"]
  /\ UNCHANGED <<files, cfg, sched, fidx, next_id, strat, smap, uidx, result,
                 canonVars, outVars, callerVars, ingestVars, cliVars>>

\* return SimilarityResult(...)
ReturnResult(c) ==
  /\ pc[c] = "return"
  /\ result' = [result EXCEPT ![c] =
                  SimilarityResult(units[c], found[c].clusters, found[c].matches, strat[c])]
  /\ pc' = [pc EXCEPT ![c] = "done"]
  /\ UNCHANGED <<files, cfg, sched, fidx, units, next_id, strat, smap, uidx, found, canonVars, outVars, callerVars, ingestVars, cliVars>>

\* The result is serialised and written as JSON.
WriteJson(c) ==
  /\ pc[c] = "done"
  /\ jtext[c] = <<>>
  /\ jtext' = [jtext EXCEPT ![c] = json_dump(serialize_similarity(result[c]))]
  /\ UNCHANGED <<runVars, canonVars, callerVars, ingestVars, cliVars>>

\* The handler has analysed the targets and builds the configuration; the
\* analyze command runs the similarity pass only with --similarity.
CliStart(c) ==
  /\ hpc[c] = "start"
  /\ IF command[c] = "analyze" /\ ~cli_args[c].similarity
     THEN /\ hpc' = [hpc EXCEPT ![c] = "output"]
          /\ UNCHANGED <<cfg, pc>>
     ELSE /\ cfg' = [cfg EXCEPT ![c] = IF command[c] = "analyze" THEN AnalyzeConfig(cli_args[c])
                                        ELSE SimConfig(cli_args[c])]
          /\ pc' = [pc EXCEPT ![c] = "idle"]
          /\ hpc' = [hpc EXCEPT ![c] = "run"]
  /\ UNCHANGED <<files, sched, fidx, units, next_id, strat, smap, uidx, found, result,
                 canonVars, outVars, callerVars, ingestVars,
                 command, cli_args, env, similarity, log, console, produced, status>>

\* An exception is raised during extraction; run has no handler, so the
\* call ends without a result.
RunRaise(c) ==
  /\ hpc[c] = "run"
  /\ env[c].run_raises
  /\ pc[c] = "extract"
  /\ pc' = [pc EXCEPT ![c] = "raised"]
  /\ UNCHANGED <<files, cfg, sched, fidx, units, next_id, strat, smap, uidx, found, result,
                 canonVars, outVars, callerVars, ingestVars, cliVars>>

\* try: sim_result = run_similarity(result, cfg); result.similarity =
\* sim_result / except Exception: ...
AfterRun(c) ==
  /\ hpc[c] = "run"
  /\ pc[c] \in {"done", "raised"}
  /\ IF pc[c] = "done"
     THEN /\ similarity' = [similarity EXCEPT ![c] = <<result[c]>>]
          /\ hpc' = [hpc EXCEPT ![c] = "output"]
          /\ UNCHANGED <<log, status>>
     ELSE LET h == IF command[c] = "analyze" THEN AnalyzeOnRunError ELSE SimOnRunError
          IN /\ log' = [log EXCEPT ![c] = @ \o h.log]
             /\ hpc' = [hpc EXCEPT ![c] = h.hpc]
             /\ status' = [status EXCEPT ![c] = h.status]
             /\ UNCHANGED similarity
  /\ UNCHANGED <<runVars, canonVars, outVars, callerVars, ingestVars,
                 command, cli_args, env, console, produced>>

\* The tree, report or collection of the analyze command (an OSError ends
\* the command with 1), and the similarity summary.
Output(c) ==
  /\ hpc[c] = "output"
  /\ IF command[c] = "analyze"
     THEN IF env[c].output_fails
          THEN /\ log' = [log EXCEPT ![c] =
                            Append(@, LogRecord("error", "Fatal error during output generation"))]
               /\ status' = [status EXCEPT ![c] = <<1>>]
               /\ hpc' = [hpc EXCEPT ![c] = "exit"]
               /\ UNCHANGED <<console, produced>>
          ELSE /\ produced' = [produced EXCEPT ![c] = cli_args[c].mode]
               /\ console' = [console EXCEPT ![c] =
                    IF cli_args[c].mode = "interactive" /\ cli_args[c].similarity
                    THEN <<DividerLine>>
                           \o print_similarity_summary(similarity[c],
                                AnalyzeStrategy(similarity[c], cli_args[c]), TRUE)
                    ELSE <<>>]
               /\ hpc' = [hpc EXCEPT ![c] = "json"]
               /\ UNCHANGED <<log, status>>
     ELSE /\ console' = [console EXCEPT ![c] =
               print_similarity_summary(similarity[c], cfg[c].strategy, cli_args[c].print_members)]
          /\ hpc' = [hpc EXCEPT ![c] = "json"]
          /\ UNCHANGED <<log, status, produced>>
  /\ UNCHANGED <<runVars, canonVars, outVars, callerVars, ingestVars, command, cli_args, env, similarity>>

\* The raw similarity JSON, when a path is given, and the return.
Json(c) ==
  /\ hpc[c] = "json"
  /\ IF ~(cli_args[c].json_path /\ (command[c] = "analyze" => cli_args[c].similarity))
     THEN /\ status' = [status EXCEPT ![c] = <<0>>]
          /\ UNCHANGED <<log, jtext>>
     ELSE IF env[c].write_fails
     THEN LET h == IF command[c] = "analyze" THEN AnalyzeOnWriteError ELSE SimOnWriteError
          IN /\ log' = [log EXCEPT ![c] = @ \o h.log]
             /\ status' = [status EXCEPT ![c] = h.status]
             /\ UNCHANGED jtext
     ELSE /\ jtext' = [jtext EXCEPT ![c] = json_dump(Payload(similarity[c]))]
          /\ log' = [log EXCEPT ![c] = Append(@, LogRecord("info", "Wrote similarity JSON"))]
          /\ status' = [status EXCEPT ![c] = <<0>>]
  /\ hpc' = [hpc EXCEPT ![c] = "exit"]
  /\ UNCHANGED <<runVars, canonVars, callerVars, ingestVars,
                 command, cli_args, env, similarity, console, produced>>

\* index_paths: the files of the next path are scanned and one task per
\* file is handed to asyncio.gather.
Scan ==
  /\ ipc = "scan"
  /\ ipath <= Len(paths)
  /\ tpc' = [i \in DOMAIN paths[ipath] |-> "start"]
  /\ tres' = [i \in DOMAIN paths[ipath] |-> <<>>]
  /\ ipc' = "gather"
  /\ UNCHANGED <<paths, ipath, results, stored, runVars, canonVars, outVars, callerVars, cliVars>>

\* _process_file up to the read of the file.
TaskRead(i) ==
  /\ ipc = "gather"
  /\ tpc[i] = "start"
  /\ LET f == paths[ipath][i]
     IN CASE f.fault = "delete" ->
               tpc' = [tpc EXCEPT ![i] = "done"] /\ tres' = [tres EXCEPT ![i] = <<Raised>>]
          [] f.fault = "read" ->
               tpc' = [tpc EXCEPT ![i] = "done"] /\ tres' = [tres EXCEPT ![i] = <<Returned(0)>>]
          [] OTHER ->
               tpc' = [tpc EXCEPT ![i] = "read"] /\ UNCHANGED tres
  /\ UNCHANGED <<paths, ipc, ipath, results, stored, runVars, canonVars, outVars, callerVars, cliVars>>

\* _process_file: chunk_file and embed_chunks.
TaskEmbed(i) ==
  /\ ipc = "gather"
  /\ tpc[i] = "read"
  /\ LET f == paths[ipath][i]
     IN IF f.chunks = 0 \/ f.fault = "embed"
        THEN tpc' = [tpc EXCEPT ![i] = "done"] /\ tres' = [tres EXCEPT ![i] = <<Returned(0)>>]
        ELSE tpc' = [tpc EXCEPT ![i] = "embedded"] /\ UNCHANGED tres
  /\ UNCHANGED <<paths, ipc, ipath, results, stored, runVars, canonVars, outVars, callerVars, cliVars>>

\* _process_file: vector_store.upsert(rows); return len(rows).
TaskStore(i) ==
  /\ ipc = "gather"
  /\ tpc[i] = "embedded"
  /\ LET f == paths[ipath][i]
     IN CASE f.fault = "store" ->
               tres' = [tres EXCEPT ![i] = <<Returned(0)>>] /\ UNCHANGED stored
          [] f.fault = "upsert" ->
               tres' = [tres EXCEPT ![i] = <<Raised>>] /\ UNCHANGED stored
          [] OTHER ->
               /\ tres' = [tres EXCEPT ![i] = <<Returned(f.chunks)>>]
               /\ stored' = stored \cup {<<ipath, i>>}
  /\ tpc' = [tpc EXCEPT ![i] = "done"]
  /\ UNCHANGED <<paths, ipc, ipath, results, runVars, canonVars, outVars, callerVars, cliVars>>

\* gather returns once every task has ended; the results are tallied.
Gathered ==
  /\ ipc = "gather"
  /\ \A i \in DOMAIN tpc : tpc[i] = "done"
  /\ results' = Tally([i \in DOMAIN tres |-> tres[i][1]], results)
  /\ ipath' = ipath + 1
  /\ ipc' = "scan"
  /\ UNCHANGED <<paths, tpc, tres, stored, runVars, canonVars, outVars, callerVars, cliVars>>

\* return results
ReturnTotals ==
  /\ ipc = "scan"
  /\ ipath > Len(paths)
  /\ ipc' = "returned"
  /\ UNCHANGED <<paths, ipath, tpc, tres, results, stored,
                 runVars, canonVars, outVars, callerVars, cliVars>>

\* canonicalize_function_info(source): src = dedent(source); tree = parse(src)
CanonParse ==
  /\ cpc = "parse"
  /\ LET parsed == ast_parse(Dedent(csource))
     IN IF parsed.ok
        THEN /\ ctree' = parsed.tree
             /\ cpc' = "visit"
             /\ UNCHANGED cresult
        ELSE /\ cresult' = [canon |-> Strip(Dedent(csource)), node_count |-> 0]
             /\ cpc' = "done"
             /\ UNCHANGED ctree
  /\ UNCHANGED <<csource, runVars, outVars, callerVars, ingestVars, cliVars>>

\* tree = tx.visit(tree)
CanonVisit ==
  /\ cpc = "visit"
  /\ ctree' = visit(ctree)
  /\ cpc' = "dump"
  /\ UNCHANGED <<csource, cresult, runVars, outVars, callerVars, ingestVars, cliVars>>

\* return ast.dump(tree, ...), _count_nodes(tree)
CanonDump ==
  /\ cpc = "dump"
  /\ cresult' = [canon |-> Dump(ctree), node_count |-> _count_nodes(ctree)]
  /\ cpc' = "done"
  /\ UNCHANGED <<csource, ctree, runVars, outVars, callerVars, ingestVars, cliVars>>

Next ==
  \/ \E c \in Calls : CallRun(c)
  \/ \E c \in Calls : ExtractFile(c)
  \/ \E c \in Calls : Filter(c)
  \/ \E c \in Calls : SelectStrategy(c)
  \/ \E c \in Calls : PrepareUnit(c)
  \/ \E c \in Calls : FindClusters(c)
  \/ \E c \in Calls : ReturnResult(c)
  \/ \E c \in Calls : WriteJson(c)

NextCli ==
  \/ \E c \in Calls : CliStart(c)
  \/ \E c \in Calls : CallRun(c)
  \/ \E c \in Calls : ExtractFile(c)
  \/ \E c \in Calls : RunRaise(c)
  \/ \E c \in Calls : Filter(c)
  \/ \E c \in Calls : SelectStrategy(c)
  \/ \E c \in Calls : PrepareUnit(c)
  \/ \E c \in Calls : FindClusters(c)
  \/ \E c \in Calls : ReturnResult(c)
  \/ \E c \in Calls : AfterRun(c)
  \/ \E c \in Calls : Output(c)
  \/ \E c \in Calls : Json(c)

NextIngest ==
  \/ Scan
  \/ \E i \in DOMAIN tpc : TaskRead(i)
  \/ \E i \in DOMAIN tpc : TaskEmbed(i)
  \/ \E i \in DOMAIN tpc : TaskStore(i)
  \/ Gathered
  \/ ReturnTotals

NextCanon == CanonParse \/ CanonVisit \/ CanonDump

\* ----------------------------------------------------------------- init
StrategyNames == {"exact", "ast", "fuzzy"}
Configs == {SimilarityConfig(st, "1.0", 0, ii) : st \in StrategyNames, ii \in BOOLEAN}

AsFile(text) == PyFile("", text[1], text[2])
NamedFile(f, i) ==
  LET path == "f" \o ToString(i)
  IN [f EXCEPT !.filename = <<path, @[2]>>, !.absolute_path = <<"/repo", path>>,
               !.relative_path = path]

\* File maps of at most MaxFiles files drawn from `options`.
FileMaps(options) ==
  UNION { { [i \in 1..n |-> NamedFile(ch[i], i)] : ch \in [1..n -> options] } : n \in 0..MaxFiles }

OtherFiles ==
  { File(<<"", ".md">>, "", "text", Module(<<Foo("x", One)>>), Standard),
    File(<<"", ".PY">>, "", "text", Module(<<Foo("x", One)>>), Tight),
    File(<<"", ".py">>, "", "empty", NoneNode, Standard),
    File(<<"", ".py">>, "", "bad", NoneNode, Standard) }

NothingWritten == jtext = [c \in DOMAIN cfg |-> <<>>]
NothingPassed == passed = [c \in DOMAIN cfg |-> <<>>]

\* index_paths is not called.
NoIngest ==
  /\ paths = <<>>
  /\ ipc = "off"
  /\ ipath = 0
  /\ tpc = <<>>
  /\ tres = <<>>
  /\ results = [files |-> 0, chunks |-> 0]
  /\ stored = {}

\* run is called from code, not by a command.
NoCommand ==
  /\ command = [c \in DOMAIN cfg |-> ""]
  /\ cli_args = [c \in DOMAIN cfg |-> Namespace(FALSE, "exact", FALSE, FALSE, TRUE, "")]
  /\ env = [c \in DOMAIN cfg |-> [run_raises |-> FALSE, output_fails |-> FALSE, write_fails |-> FALSE]]
  /\ hpc = [c \in DOMAIN cfg |-> ""]
  /\ similarity = [c \in DOMAIN cfg |-> <<>>]
  /\ log = [c \in DOMAIN cfg |-> <<>>]
  /\ console = [c \in DOMAIN cfg |-> <<>>]
  /\ produced = [c \in DOMAIN cfg |-> ""]
  /\ status = [c \in DOMAIN cfg |-> <<>>]

NoCanonCall ==
  /\ cpc = "off"
  /\ csource = <<>>
  /\ ctree = NoneNode
  /\ cresult = NoCanon

\* `n` calls of run, all with one configuration, on one file map.
InitRuns(options, n, how) ==
  /\ files \in FileMaps(options)
  /\ \E cf \in Configs : cfg = [c \in 1..n |-> cf]
  /\ sched = how
  /\ pc = [c \in 1..n |-> "idle"]
  /\ fidx = [c \in 1..n |-> 0]
  /\ units = [c \in 1..n |-> <<>>]
  /\ next_id = [c \in 1..n |-> 0]
  /\ strat = [c \in 1..n |-> ""]
  /\ smap = [c \in 1..n |-> <<>>]
  /\ uidx = [c \in 1..n |-> 0]
  /\ found = [c \in 1..n |-> [clusters |-> <<>>, matches |-> <<>>]]
  /\ result = [c \in 1..n |-> NoResult]
  /\ NoCanonCall
  /\ NothingWritten
  /\ NothingPassed
  /\ NoCommand
  /\ NoIngest

Init == InitRuns({AsFile(t) : t \in CoreTexts} \cup OtherFiles, 1, "successive")
InitExact == InitRuns({AsFile(t) : t \in ExactTexts}, 1, "successive")
InitAst == InitRuns({AsFile(t) : t \in AstTexts}, 1, "successive")
InitTwice ==
  InitRuns({AsFile(t) : t \in CoreTexts} \cup {f \in OtherFiles : f.kind = "bad"},
           2, "successive")

InitNesting == InitRuns({AsFile(t) : t \in NestTexts}, 1, "successive")

\* Texts that do not parse: "def (" bare, and indented with a line break.
Broken == {<<"def", " ", "(">>, <<" ", "def", " ", "(", "\n">>}

InitCanon ==
  /\ files = <<>>
  /\ cfg = <<>>
  /\ sched = "successive"
  /\ pc = <<>>
  /\ fidx = <<>>
  /\ units = <<>>
  /\ next_id = <<>>
  /\ strat = <<>>
  /\ smap = <<>>
  /\ uidx = <<>>
  /\ found = <<>>
  /\ result = <<>>
  /\ cpc = "parse"
  /\ csource \in {RenderStmt(f, lay, 0) : f \in CanonTrees, lay \in {Standard, Tight}}
                   \cup Broken
  /\ ctree = NoneNode
  /\ cresult = NoCanon
  /\ NothingWritten
  /\ NothingPassed
  /\ NoCommand
  /\ NoIngest

\* A caller makes a strategy itself and hands prepare its own units: at most
\* MaxUnits of them, some with a source that is not a str.
DirectSources ==
  { RenderDef(Foo("x", One), Standard, 0), RenderDef(Foo("x", One), Narrow, 0),
    RenderDef(Foo("x", Two), Standard, 0), NoSource } \cup Broken

DirectUnits ==
  UNION { { [i \in 1..n |-> CodeUnit(i - 1, <<"/repo", "f1">>, "f1", <<"foo">>, <<1, 3>>, ch[i])] :
              ch \in [1..n -> DirectSources] } : n \in 0..MaxUnits }

InitPrepare ==
  /\ files = <<>>
  /\ \E name \in {"exact", "ast", "base"} :
       /\ cfg = <<SimilarityConfig(name, "1.0", 0, TRUE)>>
       /\ strat = <<name>>
  /\ sched = "successive"
  /\ pc = <<"prepare">>
  /\ fidx = <<0>>
  /\ units \in {<<us>> : us \in DirectUnits}
  /\ next_id = <<0>>
  /\ smap = <<StrategyInit(1)>>
  /\ uidx = <<1>>
  /\ found = <<[clusters |-> <<>>, matches |-> <<>>]>>
  /\ result = <<NoResult>>
  /\ NoCanonCall
  /\ NothingWritten
  /\ NothingPassed
  /\ NoCommand
  /\ NoIngest

NextPrepare ==
  \/ \E c \in Calls : PrepareUnit(c)
  \/ \E c \in Calls : FindClusters(c)

\* Two calls of run on one file map whose configurations differ at most in
\* threshold and max_candidates.
KnobTexts ==
  { <<<<Foo("x", One)>>, Standard>>,
    <<<<Foo("x", One)>>, Wide>>,
    <<<<Foo("x", Two), Foo("x", One)>>, Standard>>,
    <<<<ClassDef("A", <<Init__("data"), Foo("x", One)>>)>>, Standard>> }

InitKnobs ==
  /\ files \in FileMaps({AsFile(t) : t \in KnobTexts})
  /\ \E st \in StrategyNames, ii \in BOOLEAN, th \in {"1.0", "0.5"}, mc \in {0, 1} :
       cfg = <<SimilarityConfig(st, "1.0", 0, ii), SimilarityConfig(st, th, mc, ii)>>
  /\ sched = "successive"
  /\ pc = [c \in 1..2 |-> "idle"]
  /\ fidx = [c \in 1..2 |-> 0]
  /\ units = [c \in 1..2 |-> <<>>]
  /\ next_id = [c \in 1..2 |-> 0]
  /\ strat = [c \in 1..2 |-> ""]
  /\ smap = [c \in 1..2 |-> <<>>]
  /\ uidx = [c \in 1..2 |-> 0]
  /\ found = [c \in 1..2 |-> [clusters |-> <<>>, matches |-> <<>>]]
  /\ result = [c \in 1..2 |-> NoResult]
  /\ NoCanonCall
  /\ NothingWritten
  /\ NothingPassed
  /\ NoCommand
  /\ NoIngest

\* Two calls of run in one process, each with its own configuration, their
\* steps interleaved in any way.
InitConcurrent ==
  /\ files \in FileMaps({AsFile(t) : t \in KnobTexts \ {<<<<Foo("x", One)>>, Wide>>}})
  /\ cfg \in [1..2 -> {cf \in Configs : cf.strategy # "fuzzy"}]
  /\ sched = "concurrent"
  /\ pc = [c \in 1..2 |-> "idle"]
  /\ fidx = [c \in 1..2 |-> 0]
  /\ units = [c \in 1..2 |-> <<>>]
  /\ next_id = [c \in 1..2 |-> 0]
  /\ strat = [c \in 1..2 |-> ""]
  /\ smap = [c \in 1..2 |-> <<>>]
  /\ uidx = [c \in 1..2 |-> 0]
  /\ found = [c \in 1..2 |-> [clusters |-> <<>>, matches |-> <<>>]]
  /\ result = [c \in 1..2 |-> NoResult]
  /\ NoCanonCall
  /\ NothingWritten
  /\ NothingPassed
  /\ NoCommand
  /\ NoIngest

\* A direct caller prepares one instance twice and then asks for clusters.
AgainUnits ==
  {us \in DirectUnits : \A i \in DOMAIN us : us[i].source \notin Broken}

InitAgain ==
  /\ files = <<>>
  /\ \E name \in {"exact", "ast"} :
       /\ cfg = <<SimilarityConfig(name, "1.0", 0, TRUE)>>
       /\ strat = <<name>>
  /\ sched = "successive"
  /\ pc = <<"prepare">>
  /\ fidx = <<0>>
  /\ units \in {<<us>> : us \in AgainUnits}
  /\ passed = units
  /\ NoCommand
  /\ NoIngest
  /\ next_id = <<0>>
  /\ smap = <<StrategyInit(1)>>
  /\ uidx = <<1>>
  /\ found = <<[clusters |-> <<>>, matches |-> <<>>]>>
  /\ result = <<NoResult>>
  /\ NoCanonCall
  /\ NothingWritten

NextAgain ==
  \/ \E c \in Calls : PrepareUnit(c)
  \/ \E c \in Calls : PrepareCall(c)
  \/ \E c \in Calls : FindClustersDirect(c)

\* One command, analyze or sim, on a file map whose paths are in or against
\* the order of the map.
CliTexts ==
  { <<<<Foo("x", One)>>, Standard>>,
    <<<<Foo("x", One), Foo("x", One)>>, Narrow>>,
    <<<<ClassDef("A", <<Init__("data"), Foo("x", One)>>)>>, Standard>> }

Renamed(fs) == [i \in DOMAIN fs |-> NamedFile(fs[i], Len(fs) + 1 - i)]

CliArguments ==
  { Namespace(s, "exact", ii, jp, TRUE, m) :
      s \in BOOLEAN, ii \in BOOLEAN, jp \in BOOLEAN, m \in {"interactive", "report"} }

SimArguments ==
  { Namespace(FALSE, "exact", ii, jp, pm, "") : ii \in BOOLEAN, jp \in BOOLEAN, pm \in BOOLEAN }

InitCli ==
  /\ \E fs \in FileMaps({AsFile(t) : t \in CliTexts}) : files \in {fs, Renamed(fs)}
  /\ cfg = <<SimilarityConfig("exact", "1.0", 0, FALSE)>>
  /\ sched = "successive"
  /\ pc = <<"wait">>
  /\ fidx = <<0>>
  /\ units = <<<<>>>>
  /\ next_id = <<0>>
  /\ strat = <<"">>
  /\ smap = <<<<>>>>
  /\ uidx = <<0>>
  /\ found = <<[clusters |-> <<>>, matches |-> <<>>]>>
  /\ result = <<NoResult>>
  /\ NoCanonCall
  /\ NothingWritten
  /\ NothingPassed
  /\ \E cmd \in {"analyze", "sim"} :
       /\ command = <<cmd>>
       /\ \E a \in (IF cmd = "analyze" THEN CliArguments ELSE SimArguments) : cli_args = <<a>>
       /\ \E rr \in BOOLEAN, of \in (IF cmd = "analyze" THEN BOOLEAN ELSE {FALSE}), wf \in BOOLEAN :
            env = <<[run_raises |-> rr, output_fails |-> of, write_fails |-> wf]>>
  /\ hpc = <<"start">>
  /\ similarity = <<<<>>>>
  /\ log = <<<<>>>>
  /\ console = <<<<>>>>
  /\ produced = <<"">>
  /\ status = <<<<>>>>
  /\ NoIngest

\* index_paths on one or two paths of at most MaxFiles files each.
IngestFiles ==
  { IngestFile(2, "none"), IngestFile(1, "none"), IngestFile(0, "none"),
    IngestFile(2, "read"), IngestFile(1, "embed"), IngestFile(2, "store"),
    IngestFile(1, "delete"), IngestFile(2, "upsert") }

FilesOfPath == UNION {[1..n -> IngestFiles] : n \in 0..MaxFiles}

InitIngest ==
  /\ files = <<>>
  /\ cfg = <<>>
  /\ sched = "successive"
  /\ pc = <<>>
  /\ fidx = <<>>
  /\ units = <<>>
  /\ next_id = <<>>
  /\ strat = <<>>
  /\ smap = <<>>
  /\ uidx = <<>>
  /\ found = <<>>
  /\ result = <<>>
  /\ NoCanonCall
  /\ NothingWritten
  /\ NothingPassed
  /\ NoCommand
  /\ \E first \in FilesOfPath :
       paths \in {<<first>>, <<first, <<IngestFile(1, "upsert"), IngestFile(2, "none")>>>>}
  /\ ipc = "scan"
  /\ ipath = 1
  /\ tpc = <<>>
  /\ tres = <<>>
  /\ results = [files |-> 0, chunks |-> 0]
  /\ stored = {}

Spec == Init /\ [][Next]_vars
SpecKnobs == InitKnobs /\ [][Next]_vars
SpecPrepare == InitPrepare /\ [][NextPrepare]_vars
SpecExact == InitExact /\ [][Next]_vars
SpecAst == InitAst /\ [][Next]_vars
SpecTwice == InitTwice /\ [][Next]_vars
SpecNesting == InitNesting /\ [][Next]_vars
SpecConcurrent == InitConcurrent /\ [][Next]_vars
SpecAgain == InitAgain /\ [][NextAgain]_vars
SpecCli == InitCli /\ [][NextCli]_vars
SpecIngest == InitIngest /\ [][NextIngest]_vars
SpecCanon == InitCanon /\ [][NextCanon]_vars

\* ------------------------------------------------------------ properties
Done(c) == pc[c] = "done"

\* The key the applied strategy gives a unit of a returned result.
KeyOf(c, u) == StrategyKey(result[c].meta, u)

ClusterOf(c, k) == result[c].clusters[k].member_ids
InCluster(c, k, id) == \E i \in DOMAIN ClusterOf(c, k) : ClusterOf(c, k)[i] = id
CoClustered(c, a, b) ==
  \E k \in DOMAIN result[c].clusters : InCluster(c, k, a) /\ InCluster(c, k, b)
InSomeMatch(c, id) ==
  \E m \in DOMAIN result[c].matches :
    result[c].matches[m].a_id = id \/ result[c].matches[m].b_id = id

\* Units i and j of a result are different units.
Pair(c, i, j) == i \in DOMAIN result[c].units /\ j \in DOMAIN result[c].units /\ i # j

LoneKey(c, i) ==
  \A j \in DOMAIN result[c].units :
    j # i => KeyOf(c, result[c].units[j]) # KeyOf(c, result[c].units[i])

\* C1: every cluster of a returned result has at least two member ids, and
\* a unit whose key no other unit has is in no cluster and in no match.
C1_NoSingletonClusters ==
  \A c \in Calls : Done(c) =>
    /\ \A k \in DOMAIN result[c].clusters : Len(ClusterOf(c, k)) >= 2
    /\ \A i \in DOMAIN result[c].units :
         LoneKey(c, i) =>
           /\ \A k \in DOMAIN result[c].clusters : ~InCluster(c, k, result[c].units[i].id)
           /\ ~InSomeMatch(c, result[c].units[i].id)

\* A result with a cluster and a unit whose key is its own.
C1_Witness ==
  \E c \in Calls :
    /\ Done(c)
    /\ result[c].clusters # <<>>
    /\ \E i \in DOMAIN result[c].units : LoneKey(c, i)

\* C2: two units of a result are in one cluster exactly when their keys are
\* equal; no unit id is in two clusters or twice in one.
C2_ClusterIffSameKey ==
  \A c \in Calls : Done(c) =>
    /\ \A i, j \in DOMAIN result[c].units :
         i # j =>
           (CoClustered(c, result[c].units[i].id, result[c].units[j].id)
              <=> KeyOf(c, result[c].units[i]) = KeyOf(c, result[c].units[j]))
    /\ \A i \in DOMAIN result[c].units :
         Cardinality({<<k, p>> \in (DOMAIN result[c].clusters) \X (0..Len(result[c].units)) :
                        /\ p \in DOMAIN ClusterOf(c, k)
                        /\ ClusterOf(c, k)[p] = result[c].units[i].id}) <= 1

\* A result with two clusters whose members are interleaved in unit order.
C2_Witness ==
  \E c \in Calls :
    /\ Done(c)
    /\ Len(result[c].clusters) >= 2
    /\ ClusterOf(c, 1)[2] > ClusterOf(c, 2)[1]

SumOfPairs(c) ==
  LET n(k) == Len(ClusterOf(c, k))
      sum[k \in 0..Len(result[c].clusters)] ==
        IF k = 0 THEN 0 ELSE sum[k - 1] + (n(k) * (n(k) - 1)) \div 2
  IN sum[Len(result[c].clusters)]

\* C3: for every cluster and every i < j there is exactly one match
\* (ids[i], ids[j], 1.0, strategy name), every match is such a pair of one
\* cluster, and the number of matches is the sum of n(n-1)/2 over clusters.
C3_MatchesArePairs ==
  \A c \in Calls : Done(c) =>
    LET ms == result[c].matches
    IN /\ Len(ms) = SumOfPairs(c)
       /\ \A k \in DOMAIN result[c].clusters :
            \A i, j \in DOMAIN ClusterOf(c, k) :
              i < j =>
                Cardinality({m \in DOMAIN ms :
                               ms[m] = Match(ClusterOf(c, k)[i], ClusterOf(c, k)[j],
                                             "1.0", result[c].meta)}) = 1
       /\ \A m \in DOMAIN ms :
            /\ ms[m].score = "1.0"
            /\ ms[m].strategy = result[c].meta
            /\ \E k \in DOMAIN result[c].clusters :
                 \E i, j \in DOMAIN ClusterOf(c, k) :
                   i < j /\ ms[m].a_id = ClusterOf(c, k)[i] /\ ms[m].b_id = ClusterOf(c, k)[j]

\* A result with a cluster of three or more members and its three matches.
C3_Witness ==
  \E c \in Calls :
    /\ Done(c)
    /\ \E k \in DOMAIN result[c].clusters : Len(ClusterOf(c, k)) >= 3
    /\ Len(result[c].matches) >= 3

\* C4: two calls of run on one file map with one configuration return the
\* same units, clusters, matches and meta, in the same order.
C4_Deterministic ==
  \A c, d \in Calls : (Done(c) /\ Done(d) /\ cfg[c] = cfg[d]) => result[c] = result[d]

\* Both calls have returned a result with a cluster.
C4_Witness ==
  /\ Cardinality(Calls) = 2
  /\ \A c \in Calls : Done(c) /\ result[c].clusters # <<>>

\* ----------------------------------------------- properties of the keys
Source(c, i) == result[c].units[i].source
Exact(c) == Done(c) /\ result[c].meta = "exact"
Together(c, i, j) == CoClustered(c, result[c].units[i].id, result[c].units[j].id)

NonSpace(s) == SelectSeq(s, LAMBDA a : ~IsSpace(a))

RECURSIVE DropSpaces(_)
DropSpaces(s) == IF s # <<>> /\ IsSpace(Head(s)) THEN DropSpaces(Tail(s)) ELSE s

\* s and t are the same text but for the length and the kind of the
\* whitespace runs that both of them have.
RECURSIVE SameButRunsFrom(_, _)
SameButRunsFrom(s, t) ==
  IF s = <<>> \/ t = <<>> THEN DropSpaces(s) = <<>> /\ DropSpaces(t) = <<>>
  ELSE IF IsSpace(Head(s)) /\ IsSpace(Head(t))
       THEN SameButRunsFrom(DropSpaces(s), DropSpaces(t))
  ELSE Head(s) = Head(t) /\ SameButRunsFrom(Tail(s), Tail(t))

SameButRuns(s, t) == SameButRunsFrom(DropSpaces(s), DropSpaces(t))

Parses(src) == ast_parse(Dedent(src)).ok
\* The def node a unit's source parses to.
TreeOf(src) == ast_parse(Dedent(src)).tree.kids[1].kids[1]

\* Two texts of one program that differ in whitespace alone.
WhitespaceVariants(s, t) ==
  /\ NonSpace(s) = NonSpace(t)
  /\ Parses(s) /\ Parses(t) /\ TreeOf(s) = TreeOf(t)

FooOnOneLine == RenderDef(Foo("x", One), Inline, 0)
\* def foo():\n  x = 1\n  return x
FooOnThreeLines == RenderDef(Foo("x", One), Narrow, 0)

\* The two routines of the scenario are the only units of call c.
ScenarioUnits(c) ==
  /\ Exact(c)
  /\ Len(result[c].units) = 2
  /\ {Source(c, 1), Source(c, 2)} = {FooOnOneLine, FooOnThreeLines}

\* C6 (as stated): the one-line and the three-line foo, the only units,
\* come back under exact as exactly one cluster holding both.
C6_Original ==
  \A c \in Calls : ScenarioUnits(c) =>
    /\ Len(result[c].clusters) = 1
    /\ Together(c, 1, 2)

\* C6: for the one-line and the three-line foo as the only units, run under
\* exact returns no cluster and no match.
C6_ScenarioNoCluster ==
  \A c \in Calls : ScenarioUnits(c) =>
    /\ result[c].clusters = <<>>
    /\ result[c].matches = <<>>

\* The scenario has been run.
C6_Witness ==
  \E c \in Calls : ScenarioUnits(c) /\ Source(c, 1) = FooOnOneLine

RECURSIVE Consts(_)
Consts(n) ==
  IF n.t = "Constant" THEN <<n>>
  ELSE Concat([i \in DOMAIN n.kids |-> Consts(n.kids[i])])

RECURSIVE Blank(_)
Blank(n) ==
  IF n.t = "Constant" THEN Constant("", <<>>)
  ELSE [n EXCEPT !.kids = [i \in DOMAIN n.kids |-> Blank(n.kids[i])]]

Changed(a, b) == {i \in DOMAIN Consts(a) : Consts(a)[i] # Consts(b)[i]}

\* Two texts written the same way whose trees differ in one literal.
LiteralVariants(s, t) ==
  /\ Parses(s) /\ Parses(t)
  /\ Blank(TreeOf(s)) = Blank(TreeOf(t))
  /\ Cardinality(Changed(TreeOf(s), TreeOf(t))) = 1
  /\ \E lay \in Layouts, lvl \in 0..MaxDepth :
       /\ s = RenderDef(TreeOf(s), lay, lvl)
       /\ t = RenderDef(TreeOf(t), lay, lvl)

\* The one literal that changed, as written in s and as written in t.
ChangedTexts(s, t) ==
  LET i == CHOOSE i \in Changed(TreeOf(s), TreeOf(t)) : TRUE
  IN <<RenderExpr(Consts(TreeOf(s))[i]), RenderExpr(Consts(TreeOf(t))[i])>>

\* C7 (as stated): under exact, two units identical but for the value of
\* one literal are never in one cluster.
C7_Original ==
  \A c \in Calls : Exact(c) =>
    \A i, j \in DOMAIN result[c].units :
      (i # j /\ LiteralVariants(Source(c, i), Source(c, j))) => ~Together(c, i, j)

\* C7: under exact, two units identical but for the value of one literal
\* are never in one cluster, unless the two literals are the same text but
\* for the whitespace runs inside them.
C7_LiteralChangeSeparates ==
  \A c \in Calls : Exact(c) =>
    \A i, j \in DOMAIN result[c].units :
      ( /\ i # j
        /\ LiteralVariants(Source(c, i), Source(c, j))
        /\ ~SameButRuns(ChangedTexts(Source(c, i), Source(c, j))[1],
                        ChangedTexts(Source(c, i), Source(c, j))[2]) )
        => ~Together(c, i, j)

\* x = 1 and x = 2 were both units of a run that returned.
C7_Witness ==
  \E c \in Calls :
    /\ Exact(c)
    /\ \E i, j \in DOMAIN result[c].units :
         /\ LiteralVariants(Source(c, i), Source(c, j))
         /\ ChangedTexts(Source(c, i), Source(c, j)) = <<<<"1">>, <<"2">>>>
         /\ ~Together(c, i, j)

Ast(c) == Done(c) /\ result[c].meta = "ast"

RECURSIVE Nodes(_)
Nodes(n) == {n} \cup UNION {Nodes(n.kids[i]) : i \in DOMAIN n.kids}

\* The names a routine binds: parameters, assigned names, `except .. as` names.
Binds(n) ==
  \/ n.t = "arg"
  \/ n.t = "Name" /\ n.k = "Store"
  \/ n.t = "ExceptHandler" /\ n.id # ""
Locals(f) == {n.id : n \in {m \in Nodes(f) : Binds(m)}}

RECURSIVE Rename(_, _)
Rename(n, to) ==
  [n EXCEPT !.id = IF n.t \in {"arg", "Name", "ExceptHandler"} /\ @ \in DOMAIN to
                   THEN to[@] ELSE @,
            !.kids = [i \in DOMAIN n.kids |-> Rename(n.kids[i], to)]]

\* Every literal keeps its kind and loses its value.
RECURSIVE AnyValue(_)
AnyValue(n) ==
  IF n.t = "Constant" THEN Constant(n.k, <<>>)
  ELSE [n EXCEPT !.kids = [i \in DOMAIN n.kids |-> AnyValue(n.kids[i])]]

\* b is a with its locals and parameters renamed one to one and literals
\* replaced by literals of the same kind.
IsRenaming(a, b) ==
  \E to \in [Locals(a) -> Locals(b)] :
    /\ \A x, y \in Locals(a) : to[x] = to[y] => x = y
    /\ AnyValue(Rename(a, to)) = AnyValue(b)

\* C8 (as stated): under ast, two units that differ only by a renaming of
\* locals and parameters and by same-kind literals are in one cluster.
C8_Original ==
  \A c \in Calls : Ast(c) =>
    \A i, j \in DOMAIN result[c].units :
      ( /\ i # j
        /\ Parses(Source(c, i)) /\ Parses(Source(c, j))
        /\ IsRenaming(TreeOf(Source(c, i)), TreeOf(Source(c, j))) )
        => Together(c, i, j)

Parsed == cpc \in {"dump", "done"} /\ ctree # NoneNode
Given == ast_parse(Dedent(csource)).tree

BoolOrNone(n) == n.k \in {"bool", "NoneType"}

\* C9 (as stated): the True, False and None literals of a routine are, in
\* order and with their values, the True, False and None literals of its
\* canonical tree.
C9_Original ==
  Parsed => SelectSeq(Consts(ctree), BoolOrNone) = SelectSeq(Consts(Given), BoolOrNone)

\* C10 (as stated): in the canonical tree every name reference and every
\* parameter name is the placeholder ID.
C10_Original ==
  Parsed => \A n \in Nodes(ctree) : n.t \in {"Name", "arg"} => n.id = "ID"

\* ------------------------------------------- properties of the runner
\* Every unit of the file map, before the __init__ filter.
Extracted == extract_code_units(files)

Constructor(u) == u.qualname[Len(u.qualname)] = "__init__"

InSomeCluster(c, id) == \E k \in DOMAIN result[c].clusters : InCluster(c, k, id)

\* Two constructors of different classes written the same way.
TwinConstructors(a, b) ==
  /\ a.id # b.id
  /\ Constructor(a) /\ Constructor(b)
  /\ a.qualname # b.qualname
  /\ a.source = b.source

\* C11: with include_init false no unit named __init__ or ending in
\* .__init__ is a unit of the result or a member of a cluster or a match; with
\* include_init true two identical constructors of different classes are in
\* one cluster.
C11_IncludeInitGate ==
  \A c \in Calls : Done(c) =>
    LET ex == Extracted
    IN IF cfg[c].include_init
       THEN \A i, j \in DOMAIN ex :
              TwinConstructors(ex[i], ex[j]) => CoClustered(c, ex[i].id, ex[j].id)
       ELSE \A i \in DOMAIN ex :
              Constructor(ex[i]) =>
                /\ \A j \in DOMAIN result[c].units : result[c].units[j].id # ex[i].id
                /\ ~InSomeCluster(c, ex[i].id)
                /\ ~InSomeMatch(c, ex[i].id)

\* Twin constructors went through a run that left them out and still
\* clustered other units.
C11_Witness ==
  \E c \in Calls :
    /\ Done(c) /\ ~cfg[c].include_init
    /\ result[c].clusters # <<>>
    /\ LET ex == Extracted
       IN \E i, j \in DOMAIN ex : TwinConstructors(ex[i], ex[j])

\* C12: for a strategy name that is neither "exact" nor "ast", run groups the
\* units by the exact key, and meta and every cluster and match carry the
\* name "exact".
C12_UnknownStrategyIsExact ==
  \A c \in Calls : (Done(c) /\ cfg[c].strategy \notin {"exact", "ast"}) =>
    /\ result[c].meta = "exact"
    /\ \A k \in DOMAIN result[c].clusters : result[c].clusters[k].strategy = "exact"
    /\ \A m \in DOMAIN result[c].matches : result[c].matches[m].strategy = "exact"
    /\ \A i, j \in DOMAIN result[c].units :
         i # j =>
           (Together(c, i, j)
              <=> ExactHashStrategy_key(result[c].units[i])
                    = ExactHashStrategy_key(result[c].units[j]))

\* A run asked for an unknown strategy returned a cluster and a match.
C12_Witness ==
  \E c \in Calls :
    /\ Done(c) /\ cfg[c].strategy = "fuzzy"
    /\ result[c].clusters # <<>> /\ result[c].matches # <<>>

\* --------------------------------------- properties of the extractor
Parsable(f) == f.kind # "bad"

\* The file map without the files that do not parse.
ParsableFiles(fs) == SelectSeq(fs, Parsable)

\* C13: a file that does not parse adds no unit and spends no id: after any
\* number of files the units are those of the files read so far without the
\* unparsable ones, and the units of the result are those of the file map
\* without them.
C13_ParseFailureSkipsFile ==
  \A c \in Calls :
    /\ pc[c] = "extract" =>
         /\ units[c] = extract_code_units(ParsableFiles(SubSeq(files, 1, fidx[c] - 1)))
         /\ next_id[c] = Len(units[c])
    /\ Done(c) =>
         result[c].units
           = _filter_units(extract_code_units(ParsableFiles(files)), cfg[c].include_init)

\* Extraction went past an unparsable file and took units from the next.
C13_Witness ==
  \E c \in Calls :
    /\ pc[c] = "extract" /\ fidx[c] > Len(files)
    /\ Len(files) >= 2 /\ ~Parsable(files[1])
    /\ units[c] # <<>>

\* --------------------------------------------- properties of prepare
Prepared(c) == pc[c] = "return"

RECURSIVE PrepareAll(_, _, _)
PrepareAll(us, name, map) ==
  IF us = <<>> THEN map ELSE PrepareAll(Tail(us), name, PrepareStep(map, name, Head(us)))

\* What prepare and find_clusters give for the units `us` alone.
Grouping(us, name) ==
  LET r == find_clusters(PrepareAll(us, name, <<>>), name, us)
  IN [clusters |-> r.clusters, matches |-> r.matches]

InFound(c, id) ==
  \/ \E k \in DOMAIN found[c].clusters :
       \E p \in DOMAIN found[c].clusters[k].member_ids :
         found[c].clusters[k].member_ids[p] = id
  \/ \E m \in DOMAIN found[c].matches :
       found[c].matches[m].a_id = id \/ found[c].matches[m].b_id = id

\* C14: a unit whose key raises is in no cluster and no match, and the
\* clusters and matches are those of the other units passed alone.
C14_RaisingKeyDropsUnit ==
  \A c \in Calls : Prepared(c) =>
    /\ \A i \in DOMAIN units[c] :
         KeyRaises(strat[c], units[c][i]) => ~InFound(c, units[c][i].id)
    /\ found[c]
         = Grouping(SelectSeq(units[c], LAMBDA u : ~KeyRaises(strat[c], u)), strat[c])

\* A unit whose key raises lay between two units that were clustered.
C14_Witness ==
  \E c \in Calls :
    /\ Prepared(c) /\ strat[c] # "base"
    /\ \E i, j \in DOMAIN units[c] :
         /\ i + 1 < j
         /\ ~KeyRaises(strat[c], units[c][i]) /\ ~KeyRaises(strat[c], units[c][j])
         /\ KeyRaises(strat[c], units[c][i + 1])
         /\ InFound(c, units[c][i].id) /\ InFound(c, units[c][j].id)

\* ----------------------------------- properties of the canonicalizer
\* s without its leading and trailing whitespace.
Trimmed(s) ==
  LET inked == {i \in DOMAIN s : ~IsSpace(s[i])}
  IN IF inked = {} THEN <<>>
     ELSE SubSeq(s, CHOOSE i \in inked : \A j \in inked : i <= j,
                    CHOOSE i \in inked : \A j \in inked : j <= i)

IsText(u) == u.source # NoSource

FoundTogether(c, a, b) ==
  \E k \in DOMAIN found[c].clusters :
    /\ \E p \in DOMAIN found[c].clusters[k].member_ids :
         found[c].clusters[k].member_ids[p] = a
    /\ \E p \in DOMAIN found[c].clusters[k].member_ids :
         found[c].clusters[k].member_ids[p] = b

\* C15: for a text that does not parse canonicalize_function_info returns
\* the dedented, trimmed text and node count 0, for one that parses a node
\* count above 0; under ast two units are in one cluster exactly when these
\* canonical strings are equal, whether they parsed or not.
C15_CanonFallback ==
  \A c \in Calls : (Prepared(c) /\ strat[c] = "ast") =>
    \A i \in DOMAIN units[c] :
      IsText(units[c][i]) =>
        LET src == units[c][i].source
            r == canonicalize_function_info(src)
        IN /\ IF Parses(src) THEN r.node_count > 0
              ELSE r = [canon |-> Trimmed(Dedent(src)), node_count |-> 0]
           /\ \A j \in DOMAIN units[c] :
                (j # i /\ IsText(units[c][j])) =>
                  (FoundTogether(c, units[c][i].id, units[c][j].id)
                     <=> r.canon = canonicalize_function_info(units[c][j].source).canon)

\* A text that does not parse lay between two units that were clustered.
C15_Witness ==
  \E c \in Calls :
    /\ Prepared(c) /\ strat[c] = "ast" /\ Len(units[c]) = 3
    /\ units[c][2].source \in Broken
    /\ units[c][2].source # Trimmed(units[c][2].source)
    /\ FoundTogether(c, units[c][1].id, units[c][3].id)
    /\ ~InFound(c, units[c][2].id)

RECURSIVE SumOf(_)
SumOf(ns) == IF ns = <<>> THEN 0 ELSE Head(ns) + SumOf(Tail(ns))

\* The number of def and async def statements in a tree, wherever they are.
RECURSIVE CountDefs(_)
CountDefs(n) ==
  (IF IsFunction(n) THEN 1 ELSE 0) + SumOf([i \in DOMAIN n.kids |-> CountDefs(n.kids[i])])

\* The file is read and parsed by the extractor.
Readable(f) == IsPython(f) /\ f.kind = "text"

Extracting(c) == pc[c] = "extract" /\ fidx[c] > Len(files)

\* C16 (as stated): the extractor yields one unit for every def of every
\* parsed file, whatever statement the def is nested in, each unit being
\* the text of a def.
C16_Original ==
  \A c \in Calls : Extracting(c) =>
    /\ Len(units[c])
         = SumOf([i \in DOMAIN files |->
                    IF Readable(files[i]) THEN CountDefs(files[i].tree) ELSE 0])
    /\ \A i \in DOMAIN units[c] : Head(units[c][i].source) \in {"def", "async"}

\* C17: while and after the files are read the i-th unit appended has id
\* i - 1 and the next id is the number of units, whatever files were
\* skipped; the units of a result are in strictly increasing id order.
C17_IdsInDiscoveryOrder ==
  \A c \in Calls :
    /\ pc[c] = "extract" =>
         /\ \A i \in DOMAIN units[c] : units[c][i].id = i - 1
         /\ next_id[c] = Len(units[c])
    /\ Done(c) =>
         \A i, j \in DOMAIN result[c].units :
           i < j => result[c].units[i].id < result[c].units[j].id

\* A result whose first file was skipped and whose ids, after the __init__
\* filter, have a gap.
C17_Witness ==
  \E c \in Calls :
    /\ Done(c) /\ Len(files) = 2 /\ ~Readable(files[1])
    /\ Len(result[c].units) >= 2
    /\ \E i \in DOMAIN result[c].units : result[c].units[i].id # i - 1

\* ------------------------------------- properties of the cluster list
\* Where the unit with this id stands in the units of the result.
PositionOf(c, id) == CHOOSE i \in DOMAIN result[c].units : result[c].units[i].id = id

\* C18: the k-th cluster has id k - 1; clusters are listed by the position
\* of their first member; the members of a cluster are listed in the order
\* of the units.
C18_ClusterIdsInKeyOrder ==
  \A c \in Calls : Done(c) =>
    /\ \A k \in DOMAIN result[c].clusters : result[c].clusters[k].id = k - 1
    /\ \A k, l \in DOMAIN result[c].clusters :
         k < l => PositionOf(c, ClusterOf(c, k)[1]) < PositionOf(c, ClusterOf(c, l)[1])
    /\ \A k \in DOMAIN result[c].clusters :
         \A p, q \in DOMAIN ClusterOf(c, k) :
           p < q => PositionOf(c, ClusterOf(c, k)[p]) < PositionOf(c, ClusterOf(c, k)[q])

\* Two clusters with a unit of a key of its own between their first members.
C18_Witness ==
  \E c \in Calls :
    /\ Done(c) /\ Len(result[c].clusters) = 2
    /\ \E i \in DOMAIN result[c].units :
         /\ LoneKey(c, i)
         /\ PositionOf(c, ClusterOf(c, 1)[1]) < i
         /\ i < PositionOf(c, ClusterOf(c, 2)[1])

\* ---------------------------------- properties of the configuration
SameButKnobs(cf, cg) == cf.strategy = cg.strategy /\ cf.include_init = cg.include_init

\* C19: two calls of run on one file map whose configurations agree on
\* strategy and include_init return the same units, clusters, matches and
\* meta, whatever their threshold and max_candidates.
C19_KnobsInert ==
  \A c, d \in Calls :
    (Done(c) /\ Done(d) /\ SameButKnobs(cfg[c], cfg[d])) => result[c] = result[d]

\* Both calls returned clusters, under different thresholds and caps.
C19_Witness ==
  /\ Cardinality(Calls) = 2
  /\ \A c \in Calls : Done(c) /\ Len(result[c].units) >= 2 /\ result[c].clusters # <<>>
  /\ cfg[1].threshold # cfg[2].threshold
  /\ cfg[1].max_candidates # cfg[2].max_candidates

\* ------------------------------------------ properties of the JSON text
Written(c) == jtext[c] # <<>>

\* data[key] of a decoded dict.
Get(d, key) == d.items[CHOOSE i \in DOMAIN d.keys : d.keys[i] = key]

Numbers(l) == [i \in DOMAIN l.items |-> l.items[i].n]

\* C20: the JSON text of a result decodes to units, clusters and matches
\* lists as long as those of the result, with the same unit ids, cluster
\* ids, member_ids and a_id / b_id in the same order.
C20_JsonRoundTrip ==
  \A c \in Calls : Written(c) =>
    LET data == json_loads(jtext[c])
        us == Get(data, "units").items
        cs == Get(data, "clusters").items
        ms == Get(data, "matches").items
    IN /\ Len(us) = Len(result[c].units)
       /\ Len(cs) = Len(result[c].clusters)
       /\ Len(ms) = Len(result[c].matches)
       /\ \A i \in DOMAIN us :
            Get(us[i], "id") = JInt(result[c].units[i].id)
       /\ \A k \in DOMAIN cs :
            /\ Get(cs[k], "id") = JInt(result[c].clusters[k].id)
            /\ Get(cs[k], "member_ids").kind = "list"
            /\ Numbers(Get(cs[k], "member_ids")) = result[c].clusters[k].member_ids
       /\ \A m \in DOMAIN ms :
            /\ Get(ms[m], "a_id") = JInt(result[c].matches[m].a_id)
            /\ Get(ms[m], "b_id") = JInt(result[c].matches[m].b_id)

\* A result with a unit outside every cluster, a cluster and matches was
\* written.
C20_Witness ==
  \E c \in Calls :
    /\ Written(c)
    /\ Len(result[c].clusters) >= 1 /\ Len(result[c].matches) >= 3
    /\ \E i \in DOMAIN result[c].units : ~InSomeCluster(c, result[c].units[i].id)

\* ------------------------------------ properties of the ids of a result
\* The number of units of the result of call c that carry `id`.
UnitsWithId(c, id) == Cardinality({i \in DOMAIN result[c].units : result[c].units[i].id = id})

\* C28: every id in a cluster's member_ids and every a_id / b_id of a match
\* is the id of exactly one unit of result.units, and a unit removed by the
\* __init__ filter is in none of units, clusters and matches.
C28_IdsReferToUnits ==
  \A c \in Calls : Done(c) =>
    /\ \A k \in DOMAIN result[c].clusters :
         \A p \in DOMAIN result[c].clusters[k].member_ids :
           UnitsWithId(c, result[c].clusters[k].member_ids[p]) = 1
    /\ \A m \in DOMAIN result[c].matches :
         /\ UnitsWithId(c, result[c].matches[m].a_id) = 1
         /\ UnitsWithId(c, result[c].matches[m].b_id) = 1
    /\ LET ex == Extracted
       IN \A i \in DOMAIN ex :
            (~cfg[c].include_init /\ IsInit(ex[i].qualname)) =>
              /\ UnitsWithId(c, ex[i].id) = 0
              /\ ~InSomeCluster(c, ex[i].id)
              /\ ~InSomeMatch(c, ex[i].id)

\* A run that filtered a constructor out returned a cluster and a match
\* whose ids lie after the removed one.
C28_Witness ==
  \E c \in Calls :
    /\ Done(c) /\ ~cfg[c].include_init
    /\ result[c].clusters # <<>> /\ result[c].matches # <<>>
    /\ LET ex == Extracted
       IN \E i \in DOMAIN ex :
            /\ IsInit(ex[i].qualname)
            /\ \E m \in DOMAIN result[c].matches : result[c].matches[m].b_id > ex[i].id

\* C29: the member_ids of every cluster are strictly increasing, every match
\* has a_id < b_id, and no two matches hold the same unordered pair of ids.
C29_IdsAscending ==
  \A c \in Calls : Done(c) =>
    /\ \A k \in DOMAIN result[c].clusters :
         LET ids == result[c].clusters[k].member_ids
         IN \A p, q \in DOMAIN ids : p < q => ids[p] < ids[q]
    /\ \A m \in DOMAIN result[c].matches :
         result[c].matches[m].a_id < result[c].matches[m].b_id
    /\ \A m, n \in DOMAIN result[c].matches :
         m # n => {result[c].matches[m].a_id, result[c].matches[m].b_id}
                    # {result[c].matches[n].a_id, result[c].matches[n].b_id}

\* A result with a cluster of three members, hence three matches.
C29_Witness ==
  \E c \in Calls :
    /\ Done(c)
    /\ Len(result[c].matches) >= 3
    /\ \E k \in DOMAIN result[c].clusters : Len(result[c].clusters[k].member_ids) >= 3

\* ------------------------------------------- properties of the qualname
\* The file of the map that unit u was taken from.
FileOf(u) == files[CHOOSE i \in DOMAIN files : files[i].relative_path = u.rel_path]

\* The def statement of unit u in the parsed tree of its file.
DefOf(u) ==
  CHOOSE n \in Nodes(ParseFile(FileOf(u)).tree) :
    IsFunction(n) /\ n.ln = u.span[1] /\ n.eln = u.span[2]

\* The names of the classes whose lines enclose unit u, outermost first.
EnclosingClasses(u) ==
  LET around == {n \in Nodes(ParseFile(FileOf(u)).tree) :
                   n.t = "ClassDef" /\ n.ln <= u.span[1] /\ u.span[2] <= n.eln}
  IN [i \in 1..Cardinality(around) |->
        (CHOOSE n \in around : Cardinality({m \in around : m.col < n.col}) = i - 1).id]

\* The routines whose lines enclose unit u.
EnclosingRoutines(u) ==
  {n \in Nodes(ParseFile(FileOf(u)).tree) :
     IsFunction(n) /\ n.ln < u.span[1] /\ u.span[2] <= n.eln}

\* The class stack left by the walk of file f.
StackAfter(f) ==
  extract_visit(ParseFile(f).tree, f,
                [units |-> <<>>, next_id |-> 0, class_stack |-> <<>>]).class_stack

\* C27: the qualname of every unit is the names of its enclosing classes,
\* outermost first, then its own name, the enclosing routines left out, and
\* the class stack is empty after the walk of every file.
C27_QualnameIsClassPath ==
  /\ \A c \in Calls : \A i \in DOMAIN units[c] :
       units[c][i].qualname = EnclosingClasses(units[c][i]) \o <<DefOf(units[c][i]).id>>
  /\ \A i \in DOMAIN files : Readable(files[i]) => StackAfter(files[i]) = <<>>

\* The walk took a routine under two classes and then its sibling under one,
\* and two routines of one qualname, one of them inside another routine.
C27_Witness ==
  \E c \in Calls :
    /\ Extracting(c)
    /\ \E i, j \in DOMAIN units[c] :
         /\ i < j
         /\ Len(units[c][i].qualname) = 3 /\ Len(units[c][j].qualname) = 2
         /\ units[c][i].rel_path = units[c][j].rel_path
    /\ \E i, j \in DOMAIN units[c] :
         /\ units[c][i].id # units[c][j].id
         /\ units[c][i].qualname = units[c][j].qualname
         /\ EnclosingRoutines(units[c][i]) # {} /\ EnclosingRoutines(units[c][j]) = {}

\* ------------------------------------------ properties of concurrent runs
\* What run returns for the file map fs and the configuration cf when it is
\* the only call.
RunAlone(fs, cf) ==
  LET us == _filter_units(extract_code_units(fs), cf.include_init)
      name == IF cf.strategy = "ast" THEN "ast" ELSE "exact"
      g == Grouping(us, name)
  IN SimilarityResult(us, g.clusters, g.matches, name)

\* C24: under every interleaving of two runs each one computes and returns
\* what it returns when executed alone.
C24_RunsIndependent ==
  \A c \in Calls : (Prepared(c) \/ Done(c)) =>
    LET alone == RunAlone(files, cfg[c])
    IN /\ Prepared(c) =>
            found[c] = [clusters |-> alone.clusters, matches |-> alone.matches]
       /\ Done(c) => result[c] = alone

\* Two runs with different strategies are both between find_clusters and
\* their return, each with clusters of its own.
C24_Witness ==
  /\ Calls = {1, 2}
  /\ sched = "concurrent"
  /\ Prepared(1) /\ Prepared(2)
  /\ cfg[1].strategy # cfg[2].strategy
  /\ found[1].clusters # <<>> /\ found[2].clusters # <<>>
  /\ found[1].clusters # found[2].clusters

\* ---------------------------------- properties of a prepared instance
\* How often `id` occurs in the sequence of ids.
Occurrences(ids, id) == Cardinality({p \in DOMAIN ids : ids[p] = id})

PassedIds(c) == [i \in DOMAIN passed[c] |-> passed[c][i].id]

\* C30: after prepare(A) and prepare(B) on one instance find_clusters gives
\* the grouping of A followed by B whatever units it is handed, so a unit
\* passed twice is twice in the member_ids of its cluster.
C30_MapIsCumulative ==
  \A c \in Calls : Prepared(c) =>
    /\ found[c] = Grouping(passed[c], strat[c])
    /\ \A i \in DOMAIN passed[c] :
         (~KeyRaises(strat[c], passed[c][i])
            /\ Occurrences(PassedIds(c), passed[c][i].id) >= 2) =>
           \E k \in DOMAIN found[c].clusters :
             Occurrences(found[c].clusters[k].member_ids, passed[c][i].id)
               = Occurrences(PassedIds(c), passed[c][i].id)

\* One unit alone under its key was passed to prepare twice and
\* find_clusters, handed no units, returned a cluster holding its id twice.
C30_Witness ==
  \E c \in Calls :
    /\ Prepared(c)
    /\ units[c] = <<>>
    /\ Len(passed[c]) >= 3
    /\ \E k \in DOMAIN found[c].clusters :
         LET ids == found[c].clusters[k].member_ids
         IN Len(ids) = 2 /\ ids[1] = ids[2]

\* ------------------------------------------- properties of the commands
Exited(c) == hpc[c] = "exit"
Logged(c, msg) == \E i \in DOMAIN log[c] : log[c][i] = LogRecord("error", msg)
RunFailed(c) == pc[c] = "raised"
WriteFailed(c) == Logged(c, "Failed writing similarity JSON")

\* C21: when the similarity pass of the analyze command raises, run returns
\* nothing and the handler logs the error, leaves result.similarity unset,
\* still produces the tree or report, and returns what it returns without
\* the failure: 1 when the main output fails, else 0.
C21_AnalyzeSurvivesRunFailure ==
  \A c \in Calls : command[c] = "analyze" =>
    /\ RunFailed(c) => result[c] = NoResult /\ similarity[c] = <<>>
    /\ (RunFailed(c) /\ hpc[c] # "run") => Logged(c, "Similarity analysis failed")
    /\ Exited(c) =>
         /\ status[c] = <<IF env[c].output_fails THEN 1 ELSE 0>>
         /\ ~env[c].output_fails => produced[c] = cli_args[c].mode
         /\ (RunFailed(c) /\ ~env[c].output_fails /\ cli_args[c].mode = "interactive") =>
              console[c] = <<DividerLine, HeaderLine, NoDuplicatesLine(cli_args[c].strategy)>>

\* The pass raised after units had been extracted and the analyze command
\* still wrote its report and returned 0.
C21_Witness ==
  \E c \in Calls :
    /\ command[c] = "analyze" /\ Exited(c) /\ RunFailed(c)
    /\ units[c] # <<>>
    /\ produced[c] = "report" /\ status[c] = <<0>>

\* C22 (as stated): in both commands a failed write of the JSON artifact is
\* logged and the command still returns 0 with result.similarity and the
\* printed summary in place.
C22_Original ==
  \A c \in Calls : (Exited(c) /\ WriteFailed(c)) =>
    /\ status[c] = <<0>>
    /\ jtext[c] = <<>>
    /\ (~RunFailed(c) /\ command[c] = "sim") =>
         similarity[c] = <<result[c]>> /\ console[c] # <<>>

\* C23 (as stated): the analyze command with --similarity hands run a
\* configuration whose include_init is the --sim-include-init flag.
C23_Original ==
  \A c \in Calls : (command[c] = "analyze" /\ cli_args[c].similarity /\ hpc[c] # "start") =>
    cfg[c].include_init = cli_args[c].include_init

\* The lines of the summary: the console without the divider before it.
SummaryOf(c) ==
  IF console[c] # <<>> /\ console[c][1] = DividerLine THEN Tail(console[c]) ELSE console[c]

\* Member listing is on: always in the analyze command, by flag in sim.
ShowMembers(c) == command[c] = "analyze" \/ cli_args[c].print_members

\* Where the block of cluster k starts in the summary.
BlockStart(sim, k) ==
  LET size[j \in 0..Len(sim.clusters)] ==
        IF j = 0 THEN 2 ELSE size[j - 1] + 1 + Len(sim.clusters[j].member_ids)
  IN size[k - 1] + 1

UnitWithId(sim, id) == sim.units[CHOOSE i \in DOMAIN sim.units : sim.units[i].id = id]

\* C26: the summary has the 'No duplicates found' line exactly when the
\* result is absent or has no clusters; otherwise, members listed, it has
\* one block per cluster in cluster order, each with exactly one line per
\* member id, ascending by (rel_path, start line).
C26_SummaryBlocks ==
  \A c \in Calls : SummaryOf(c) # <<>> =>
    LET lines == SummaryOf(c)
        none == similarity[c] = <<>> \/ similarity[c][1].clusters = <<>>
    IN /\ lines[1] = HeaderLine
       /\ (\E i \in DOMAIN lines : lines[i].text = "No duplicates found") <=> none
       /\ none => Len(lines) = 2
       /\ (~none /\ ShowMembers(c)) =>
            LET sim == similarity[c][1]
            IN /\ Len(lines) = BlockStart(sim, Len(sim.clusters) + 1) - 1
               /\ \A k \in DOMAIN sim.clusters :
                    LET at == BlockStart(sim, k)
                        ids == sim.clusters[k].member_ids
                    IN /\ lines[at] = ClusterLine(sim.clusters[k])
                       /\ \A p \in DOMAIN ids :
                            Cardinality({q \in DOMAIN ids :
                                           lines[at + q] = MemberLine(UnitWithId(sim, ids[p]))}) = 1
                       /\ \A p, q \in DOMAIN ids :
                            p < q =>
                              \/ PathRank(lines[at + p].text) < PathRank(lines[at + q].text)
                              \/ /\ lines[at + p].text = lines[at + q].text
                                 /\ lines[at + p].nums[1] <= lines[at + q].nums[1]

\* A cluster across two files whose paths run against the order of the map
\* was listed, its second member first.
C26_Witness ==
  \E c \in Calls :
    /\ SummaryOf(c) # <<>> /\ ShowMembers(c)
    /\ similarity[c] # <<>>
    /\ \E k \in DOMAIN similarity[c][1].clusters :
         LET sim == similarity[c][1]
             ids == sim.clusters[k].member_ids
             at == BlockStart(sim, k)
         IN /\ Len(ids) >= 3
            /\ SummaryOf(c)[at + 1] = MemberLine(UnitWithId(sim, ids[Len(ids)]))
            /\ UnitWithId(sim, ids[1]).rel_path # UnitWithId(sim, ids[Len(ids)]).rel_path

\* ---------------------------------------------- properties of indexing
\* The file completes with a chunk count that is not zero.
Indexed(f) == f.fault = "none" /\ f.chunks # 0

AllIngested == Concat(paths)

\* C25: whatever files fail and however the tasks of a path interleave,
\* every other file is stored, and index_paths returns files = the number
\* of files that completed with chunks and chunks = the sum of their counts.
C25_FailuresIsolated ==
  ipc = "returned" =>
    /\ stored = {<<p, i>> \in (DOMAIN paths) \X (1..MaxFiles) :
                   i \in DOMAIN paths[p] /\ Indexed(paths[p][i])}
    /\ results.files = Len(SelectSeq(AllIngested, Indexed))
    /\ results.chunks
         = SumOf([i \in DOMAIN AllIngested |->
                    IF Indexed(AllIngested[i]) THEN AllIngested[i].chunks ELSE 0])

\* A file whose task raised came before files that were indexed, in the
\* first path and in the second.
C25_Witness ==
  /\ ipc = "returned"
  /\ Len(paths) = 2
  /\ \E i, j \in DOMAIN paths[1] :
       i < j /\ paths[1][i].fault \in {"delete", "upsert"} /\ Indexed(paths[1][j])
  /\ results.files >= 2

====
